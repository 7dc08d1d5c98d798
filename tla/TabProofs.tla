----------------------------- MODULE TabProofs ------------------------------
(***************************************************************************)
(* What a tab shows: of Presence for every number of users, tabs and       *)
(* connections, and of Screens for every query, mutation and role of the   *)
(* application, whatever the others may do at the same time.               *)
(*                                                                         *)
(* Presence: the counts are inductive once every socket in use has a tab.  *)
(* ShownIsTrue speaks of tabs that have heard everything; inductive is     *)
(* what is said of the others: the last event about a user that is still   *)
(* under way is what the gateway holds, and where there is none, the tab   *)
(* and the snapshots that vouch for the user do not differ from it.        *)
(*                                                                         *)
(* Screens: ScreensAreFresh speaks of a tab to which all has arrived;      *)
(* inductive is that an answer that lacks a change is not the last word:   *)
(* an event or the mutation's own hook is still to come, or a load that    *)
(* began after the change. That one of them is there when the change is    *)
(* made is a fact about the tables of WebApp, proved first.                *)
(***************************************************************************)
EXTENDS Presence, Screens, SequenceTheorems, FiniteSetTheorems, TLAPS

\* The types without the bound of the counts, which follows from the counts.
Typed ==
  /\ Online \subseteq Users
  /\ \A u \in Online : presence[u] \in Nat \ {0}
  /\ socket \in [Sockets -> Socket]
  /\ get \in [Gets -> Get]
  /\ tab \in [Tabs -> Tab]

\* Sockets, snapshots and tabs refer to each other as they should.
Linked ==
  /\ \A s \in Sockets : socket[s].pc # "free" => socket[s].tab \in Tabs
  /\ \A g \in Gets : IF get[g].pc = "free" THEN get[g].valid = {}
                                          ELSE get[g].tab \in Tabs
  /\ \A t \in Tabs : tab[t].mounted =>
       /\ tab[t].socket \in Sockets
       /\ socket[tab[t].socket].pc # "free"
       /\ socket[tab[t].socket].tab = t
  /\ \A t \in Tabs : ~tab[t].mounted => tab[t].socket = NULL

\* Before its socket is admitted, a tab is sent nothing, and neither it nor its
\* snapshots vouch for anybody.
Waiting(t) == ~tab[t].mounted \/ socket[tab[t].socket].pc = "verifying"

Quiet ==
  \A t \in Tabs : Waiting(t) =>
    /\ tab[t].mounted => socket[tab[t].socket].inbox = <<>>
    /\ tab[t].sure = {}
    /\ \A g \in Gets : get[g].tab = t => get[g].valid = {}

\* The last event about u in q, and no event about u in q.
IsLast(q, i, u) == q[i].user = u /\ \A j \in i + 1..Len(q) : q[j].user # u
Silent(q, u) == \A i \in 1..Len(q) : q[i].user # u

\* The last events of q leave nobody shown wrongly if O are online ...
Agrees(q, O) ==
  \A u \in Users : \A i \in 1..Len(q) :
    IsLast(q, i, u) => (q[i].online <=> u \in O)

\* ... and of the users in K whom q does not mention, V shows who is online.
Vouches(q, O, K, V) ==
  \A u \in Users : Silent(q, u) /\ u \in K => (u \in V <=> u \in O)

Listening(t) == tab[t].mounted /\ Reached(socket[tab[t].socket])
Inbox(t) == socket[tab[t].socket].inbox

Truth ==
  \A t \in Tabs : Listening(t) =>
    /\ Agrees(Inbox(t), Online)
    /\ Vouches(Inbox(t), Online, tab[t].sure, tab[t].onlineUserIds)
    /\ \A g \in Gets : get[g].pc = "answered" /\ get[g].tab = t =>
         Vouches(Inbox(t), Online, get[g].valid, get[g].seen)

\* A socket that closed before it was admitted is counted, too, so the
\* inductive fact is about the admitted ones.  Typed has what
\* NobodyIsCountedOut says of the map's entries.
CountsMatch ==
  \A u \in Users : Count(u) = Cardinality(Admitted(u))

IInv == Typed /\ Linked /\ Quiet /\ CountsMatch /\ Truth

-----------------------------------------------------------------------------
(* Events *)

\* "now" follows O by the events of e: none and no change, or one event that
\* tells the change.
Follows(e, O, now) ==
  \/ e = <<>> /\ now = O
  \/ \E u \in Users, b \in BOOLEAN :
       /\ e = <<[user |-> u, online |-> b]>>
       /\ \A v \in Users \ {u} : v \in now <=> v \in O
       /\ u \in now <=> b

\* What is true of a queue of events stays true when it is told of a change.
LEMMA Telling ==
  ASSUME NEW q \in Seq(Event), NEW O, NEW now, NEW e, Follows(e, O, now)
  PROVE  /\ e \in Seq(Event)
         /\ Agrees(q, O) => Agrees(q \o e, now)
         /\ \A K, V : Vouches(q, O, K, V) => Vouches(q \o e, now, K, V)
<1>1. CASE e = <<>> /\ now = O
  <2>1. q \o e = q /\ e \in Seq(Event)
    BY <1>1
  <2> QED
    BY <1>1, <2>1
<1>2. ASSUME NEW u \in Users, NEW b \in BOOLEAN,
             e = <<[user |-> u, online |-> b]>>,
             \A v \in Users \ {u} : v \in now <=> v \in O,
             u \in now <=> b
      PROVE  /\ e \in Seq(Event)
             /\ Agrees(q, O) => Agrees(q \o e, now)
             /\ \A K, V : Vouches(q, O, K, V) => Vouches(q \o e, now, K, V)
  <2> DEFINE r == q \o e
             n == Len(q)
  <2>1. /\ e \in Seq(Event) /\ n \in Nat /\ Len(r) = n + 1
        /\ r[n + 1] = [user |-> u, online |-> b]
        /\ \A i \in 1..n : r[i] = q[i]
    BY <1>2 DEF Event
  <2> HIDE DEF r, n
  <2>2. /\ r[n + 1].user = u /\ r[n + 1].online = b
        /\ n + 1 \in 1..n + 1
    BY <2>1
  <2>3. ASSUME Agrees(q, O), NEW v \in Users, NEW i \in 1..Len(r),
               IsLast(r, i, v)
        PROVE  r[i].online <=> v \in now
    <3>1. CASE i = n + 1
      BY <3>1, <2>2, <2>3, <1>2 DEF IsLast
    <3>2. CASE i # n + 1
      <4>1. i \in 1..n /\ n + 1 \in i + 1..n + 1
        BY <3>2, <2>1
      <4>2. v # u
        BY <4>1, <2>1, <2>2, <2>3 DEF IsLast
      <4>3. IsLast(q, i, v)
        BY <4>1, <2>1, <2>3 DEF IsLast, n
      <4> QED
        BY <4>1, <4>2, <4>3, <2>1, <2>3, <1>2 DEF Agrees, n
    <3> QED
      BY <3>1, <3>2
  <2>4. ASSUME NEW K, NEW V, Vouches(q, O, K, V),
               NEW v \in Users, Silent(r, v), v \in K
        PROVE  v \in V <=> v \in now
    <3>1. v # u
      BY <2>1, <2>2, <2>4 DEF Silent
    <3>2. Silent(q, v)
      BY <2>1, <2>4 DEF Silent, n
    <3> QED
      BY <3>1, <3>2, <2>4, <1>2 DEF Vouches
  <2>5. Agrees(q, O) => Agrees(r, now)
    BY <2>3 DEF Agrees
  <2>6. \A K, V : Vouches(q, O, K, V) => Vouches(r, now, K, V)
    BY <2>4 DEF Vouches
  <2> QED
    BY <2>1, <2>5, <2>6 DEF r
<1> QED
  BY <1>1, <1>2 DEF Follows

\* What is announced are events.
LEMMA FollowingType ==
  ASSUME NEW O, NEW now, NEW e, Follows(e, O, now)
  PROVE  e \in Seq(Event)
<1>1. <<>> \in Seq(Event)
  OBVIOUS
<1> QED
  BY <1>1, Telling

\* Hearing the first event of a queue settles its user.
LEMMA Hearing ==
  ASSUME NEW q \in Seq(Event), q # <<>>, NEW O, NEW V,
         NEW W, W = IF Head(q).online THEN V \cup {Head(q).user}
                                      ELSE V \ {Head(q).user},
         Agrees(q, O)
  PROVE  /\ Tail(q) \in Seq(Event)
         /\ Agrees(Tail(q), O)
         /\ \A K : Vouches(q, O, K, V) =>
              Vouches(Tail(q), O, K \cup {Head(q).user}, W)
         /\ \A K, A : Vouches(q, O, K, A) =>
              Vouches(Tail(q), O, K \ {Head(q).user}, A)
<1> DEFINE r == Tail(q)
           n == Len(q)
           h == Head(q)
<1>1. /\ r \in Seq(Event) /\ n \in Nat /\ n >= 1 /\ Len(r) = n - 1
      /\ h = q[1] /\ \A i \in 1..n - 1 : r[i] = q[i + 1]
  OBVIOUS
<1> HIDE DEF r, n, h
<1>2. ASSUME NEW u \in Users, NEW i \in 1..Len(r), IsLast(r, i, u)
      PROVE  r[i].online <=> u \in O
  <2>1. i \in 1..n - 1 /\ i + 1 \in 1..n /\ r[i] = q[i + 1]
    BY <1>1
  <2>2. ASSUME NEW j \in (i + 1) + 1..n PROVE q[j].user # u
    <3>1. j - 1 \in i + 1..n - 1 /\ j - 1 \in 1..n - 1 /\ (j - 1) + 1 = j
      BY <2>1, <1>1
    <3>2. r[j - 1] = q[j] /\ r[j - 1].user # u
      BY <3>1, <1>1, <1>2 DEF IsLast
    <3> QED
      BY <3>2
  <2>3. IsLast(q, i + 1, u)
    BY <2>1, <2>2, <1>2 DEF IsLast, n
  <2> QED
    BY <2>1, <2>3 DEF Agrees, n
<1>3. ASSUME NEW u \in Users, Silent(r, u)
      PROVE  /\ h.user # u => Silent(q, u)
             /\ h.user = u => (h.online <=> u \in O)
  <2>1. ASSUME NEW j \in 2..n PROVE q[j].user # u
    <3>1. j - 1 \in 1..n - 1 /\ (j - 1) + 1 = j
      BY <1>1
    <3> QED
      BY <3>1, <1>1, <1>3 DEF Silent
  <2>2. \A j \in 1..n : j = 1 \/ j \in 2..n
    BY <1>1
  <2>3. h.user # u => Silent(q, u)
    BY <2>1, <2>2, <1>1 DEF Silent, n
  <2>4. h.user = u => IsLast(q, 1, u)
    BY <2>1, <1>1 DEF IsLast, n
  <2>5. 1 \in 1..Len(q)
    BY <1>1 DEF n
  <2> QED
    BY <2>3, <2>4, <2>5, <1>1 DEF Agrees
<1>4. Agrees(r, O)
  BY <1>2 DEF Agrees
<1>5. ASSUME NEW K, Vouches(q, O, K, V)
      PROVE  Vouches(r, O, K \cup {h.user}, W)
  <2> SUFFICES ASSUME NEW u \in Users, Silent(r, u), u \in K \cup {h.user}
               PROVE  u \in W <=> u \in O
    BY DEF Vouches
  <2>1. CASE u = h.user
    BY <2>1, <1>3 DEF h
  <2>2. CASE u # h.user
    BY <2>2, <1>3, <1>5 DEF Vouches, h
  <2> QED
    BY <2>1, <2>2
<1>6. ASSUME NEW K, NEW A, Vouches(q, O, K, A)
      PROVE  Vouches(r, O, K \ {h.user}, A)
  BY <1>3, <1>6 DEF Vouches
<1> QED
  BY <1>1, <1>4, <1>5, <1>6 DEF r, h

-----------------------------------------------------------------------------
(* Counts *)

\* trackPresence moves one count by one, and tells who comes and goes.
LEMMA Tracking ==
  ASSUME Typed, NEW u \in Users, NEW d \in {1, -1},
         NEW P, P = Tracked(u, d)
  PROVE  /\ DOMAIN P \subseteq Users
         /\ \A v \in DOMAIN P : P[v] \in Nat \ {0}
         /\ Follows(Told(u, d), Online, DOMAIN P)
         /\ \A v \in Users :
              (IF v \in DOMAIN P THEN P[v] ELSE 0) =
                IF v # u THEN Count(v)
                ELSE IF Count(u) + d <= 0 THEN 0 ELSE Count(u) + d
<1> DEFINE n == Count(u)
<1>1. /\ n \in Nat /\ n + d \in Int
      /\ u \in Online <=> n > 0
      /\ \A v \in Online : presence[v] \in Nat \ {0} /\ v \in Users
  BY DEF Typed, Count
<1>2. CASE n + d <= 0
  <2>1. P = [v \in Online \ {u} |-> presence[v]]
    BY <1>2 DEF Tracked
  <2>2. /\ DOMAIN P = Online \ {u}
        /\ \A v \in DOMAIN P : P[v] = presence[v]
    BY <2>1
  <2>3. Follows(Told(u, d), Online, DOMAIN P)
    <3>1. CASE n > 0
      <4>1. (Count(u) > 0) = TRUE /\ (Count(u) + d > 0) = FALSE
        BY <3>1, <1>1, <1>2
      <4>2. Told(u, d) = <<[user |-> u, online |-> FALSE]>>
        BY <4>1, Zenon DEF Told
      <4> QED
        BY <4>2, <2>2 DEF Follows
    <3>2. CASE ~(n > 0)
      <4>1. Told(u, d) = <<>>
        BY <3>2, <1>1, <1>2 DEF Told
      <4>2. DOMAIN P = Online
        BY <3>2, <1>1, <2>2
      <4> QED
        BY <4>1, <4>2 DEF Follows
    <3> QED
      BY <3>1, <3>2
  <2> QED
    BY <2>2, <2>3, <1>1, <1>2 DEF Count
<1>3. CASE ~(n + d <= 0)
  <2>1. P = [v \in Online \cup {u} |-> IF v = u THEN n + d ELSE presence[v]]
    BY <1>3 DEF Tracked
  <2>2. /\ DOMAIN P = Online \cup {u}
        /\ \A v \in DOMAIN P : P[v] = IF v = u THEN n + d ELSE presence[v]
    BY <2>1
  <2>3. Follows(Told(u, d), Online, DOMAIN P)
    <3>1. CASE n > 0
      <4>1. Told(u, d) = <<>>
        BY <3>1, <1>1, <1>3 DEF Told
      <4>2. DOMAIN P = Online
        BY <3>1, <1>1, <2>2
      <4> QED
        BY <4>1, <4>2 DEF Follows
    <3>2. CASE ~(n > 0)
      <4>1. (Count(u) > 0) = FALSE /\ (Count(u) + d > 0) = TRUE
        BY <3>2, <1>1, <1>3
      <4>2. Told(u, d) = <<[user |-> u, online |-> TRUE]>>
        BY <4>1, Zenon DEF Told
      <4> QED
        BY <4>2, <2>2 DEF Follows
    <3> QED
      BY <3>1, <3>2
  <2>4. n + d \in Nat \ {0}
    BY <1>1, <1>3
  <2> HIDE DEF n
  <2>5. /\ DOMAIN P \subseteq Users
        /\ \A v \in DOMAIN P : P[v] \in Nat \ {0}
    BY <2>2, <2>4, <1>1
  <2>6. \A v \in Users : (IF v \in DOMAIN P THEN P[v] ELSE 0) =
                            IF v # u THEN Count(v) ELSE n + d
    BY <2>2 DEF Count
  <2> QED
    BY <2>3, <2>5, <2>6, <1>3 DEF n
<1> QED
  BY <1>2, <1>3

\* An emit appends to the inboxes it reaches and changes nothing else.
LEMMA Emitting ==
  ASSUME NEW rows \in [Sockets -> Socket], NEW e \in Seq(Event)
  PROVE  /\ Emitted(rows, e) \in [Sockets -> Socket]
         /\ \A s \in Sockets :
              /\ Emitted(rows, e)[s].tab = rows[s].tab
              /\ Emitted(rows, e)[s].pc = rows[s].pc
              /\ Emitted(rows, e)[s].open = rows[s].open
              /\ Emitted(rows, e)[s].inbox =
                   IF Reached(rows[s]) /\ tab[rows[s].tab].socket = s
                   THEN rows[s].inbox \o e ELSE rows[s].inbox
<1> SUFFICES ASSUME NEW s \in Sockets
             PROVE  /\ Emitted(rows, e)[s] \in Socket
                    /\ Emitted(rows, e)[s].tab = rows[s].tab
                    /\ Emitted(rows, e)[s].pc = rows[s].pc
                    /\ Emitted(rows, e)[s].open = rows[s].open
                    /\ Emitted(rows, e)[s].inbox =
                         IF Reached(rows[s]) /\ tab[rows[s].tab].socket = s
                         THEN rows[s].inbox \o e ELSE rows[s].inbox
  BY DEF Emitted
<1>1. rows[s] \in Socket /\ rows[s].inbox \in Seq(Event)
  BY DEF Socket
<1>2. rows[s].inbox \o e \in Seq(Event)
  BY <1>1
<1>3. Emitted(rows, e)[s] =
        IF Reached(rows[s]) /\ tab[rows[s].tab].socket = s
        THEN [rows[s] EXCEPT !.inbox = rows[s].inbox \o e] ELSE rows[s]
  BY DEF Emitted
<1> QED
  BY <1>1, <1>2, <1>3 DEF Socket

\* The admitted sockets of u.

\* There are finitely many of them.
LEMMA AdmittedFinite ==
  ASSUME NEW u
  PROVE  /\ IsFiniteSet(Admitted(u)) /\ Cardinality(Admitted(u)) \in Nat
         /\ Cardinality(Admitted(u)) <= Cardinality(Sockets)
         /\ Cardinality(Sockets) \in Nat
  BY PresenceAssumption, FS_Subset, FS_CardinalityType DEF Admitted

\* No step but Admit and Disconnect concerns the counts.
LEMMA CountKept ==
  ASSUME CountsMatch, presence' = presence,
         \A s \in Sockets : /\ socket'[s].pc = "admitted" <=> socket[s].pc = "admitted"
                            /\ socket[s].pc = "admitted" =>
                                 socket'[s].tab = socket[s].tab
  PROVE  CountsMatch'
<1>1. \A u \in Users : Count(u)' = Count(u)
  BY DEF Count, Online
<1>2. \A u \in Users : Admitted(u)' = Admitted(u)
  BY DEF Admitted, Owner
<1> QED
  BY <1>1, <1>2 DEF CountsMatch, Admitted

-----------------------------------------------------------------------------
(* The steps *)

\* Nobody is connected at first.
LEMMA InitInvariant == Init => IInv
<1> SUFFICES ASSUME Init PROVE IInv
  OBVIOUS
<1>1. Online = {}
  BY DEF Init, Online
<1>2. <<>> \in Seq(Event)
  OBVIOUS
<1>3. Typed
  BY <1>1, <1>2 DEF Init, Typed, Socket, Get, Tab, NoGet
<1>4. Linked /\ Quiet /\ Truth
  BY DEF Init, Linked, Quiet, Truth, NoGet, Listening
<1>5. CountsMatch
  <2>1. \A u \in Users : Admitted(u) = {} /\ Count(u) = 0
    BY <1>1 DEF Init, Admitted, Count
  <2> QED
    BY <2>1, FS_EmptySet DEF CountsMatch, Admitted
<1> QED
  BY <1>3, <1>4, <1>5 DEF IInv

\* The common part of Admit and Disconnect: the tabs whose rows are reached are
\* told of the change.
LEMMA Announced ==
  ASSUME IInv, NEW rows \in [Sockets -> Socket], NEW e,
         Follows(e, Online, Online'),
         socket' = Emitted(rows, e), get' = get, tab' = tab,
         \A s \in Sockets :
           /\ rows[s].tab = socket[s].tab /\ rows[s].inbox = socket[s].inbox
           /\ rows[s].pc = "free" <=> socket[s].pc = "free"
           /\ rows[s].pc = "verifying" => socket[s].pc = "verifying"
           /\ Reached(rows[s]) => Reached(socket[s]) \/ socket[s].pc = "verifying"
  PROVE  socket' \in [Sockets -> Socket] /\ Linked' /\ Quiet' /\ Truth'
<1>1. Typed /\ Linked /\ Quiet /\ Truth
  BY DEF IInv
<1>2. e \in Seq(Event)
  BY FollowingType
<1>3. /\ socket' \in [Sockets -> Socket]
      /\ \A s \in Sockets :
           /\ socket'[s].tab = socket[s].tab
           /\ socket'[s].pc = rows[s].pc
           /\ socket'[s].open = rows[s].open
           /\ socket'[s].inbox =
                IF Reached(rows[s]) /\ tab[socket[s].tab].socket = s
                THEN socket[s].inbox \o e ELSE socket[s].inbox
  BY <1>2, Emitting
<1>4. Linked'
  BY <1>1, <1>3 DEF Linked
<1>5. Quiet'
  <2> SUFFICES ASSUME NEW t \in Tabs, Waiting(t)'
               PROVE  /\ tab[t].mounted => socket'[tab[t].socket].inbox = <<>>
                      /\ tab[t].sure = {}
                      /\ \A g \in Gets : get[g].tab = t => get[g].valid = {}
    BY DEF Quiet
  <2>1. CASE ~tab[t].mounted
    BY <2>1, <1>1 DEF Quiet, Waiting
  <2>2. CASE tab[t].mounted
    <3> DEFINE s == tab[t].socket
    <3>1. s \in Sockets /\ rows[s].pc = "verifying" /\ Waiting(t)
      BY <2>2, <1>1, <1>3 DEF Linked, Waiting
    <3>2. socket'[s].inbox = socket[s].inbox
      BY <3>1, <1>3 DEF Reached
    <3> QED
      BY <3>1, <3>2, <2>2, <1>1 DEF Quiet
  <2> QED
    BY <2>1, <2>2
<1>6. Truth'
  <2> SUFFICES ASSUME NEW t \in Tabs, Listening(t)'
               PROVE  /\ Agrees(Inbox(t), Online)'
                      /\ Vouches(Inbox(t)', Online', tab[t].sure,
                                 tab[t].onlineUserIds)
                      /\ \A g \in Gets :
                           get[g].pc = "answered" /\ get[g].tab = t =>
                             Vouches(Inbox(t)', Online', get[g].valid, get[g].seen)
    BY DEF Truth
  <2> DEFINE s == tab[t].socket
             q == socket[s].inbox
  <2>1. /\ s \in Sockets /\ tab[t].mounted /\ socket[s].tab = t
        /\ Reached(rows[s]) /\ Inbox(t)' = q \o e /\ q \in Seq(Event)
    BY ZenonT(60), <1>1, <1>3 DEF Listening, Linked, Inbox, Reached, Typed, Socket
  <2>2. /\ Agrees(q, Online)
        /\ Vouches(q, Online, tab[t].sure, tab[t].onlineUserIds)
        /\ \A g \in Gets : get[g].pc = "answered" /\ get[g].tab = t =>
             Vouches(q, Online, get[g].valid, get[g].seen)
    <3>1. CASE Reached(socket[s])
      BY <3>1, <2>1, <1>1 DEF Truth, Listening, Inbox
    <3>2. CASE socket[s].pc = "verifying"
      <4>1. /\ q = <<>> /\ tab[t].sure = {}
            /\ \A g \in Gets : get[g].tab = t => get[g].valid = {}
        BY <3>2, <2>1, <1>1 DEF Quiet, Waiting
      <4> QED
        BY <4>1 DEF Agrees, Vouches
    <3> QED
      BY <3>1, <3>2, <2>1
  <2> HIDE DEF s, q
  <2>3. Agrees(q \o e, Online')
    BY <2>1, <2>2, Telling
  <2>4. \A K, V : Vouches(q, Online, K, V) => Vouches(q \o e, Online', K, V)
    BY <2>1, Telling
  <2> QED
    BY <2>1, <2>2, <2>3, <2>4
<1> QED
  BY <1>3, <1>4, <1>5, <1>6

\* handleConnection counts its socket up and tells the others of a newcomer.
LEMMA AdmitStep ==
  ASSUME IInv, NEW s \in Sockets, Admit(s)
  PROVE  IInv'
<1>1. Typed /\ Linked /\ CountsMatch
  BY DEF IInv
<1>2. PICK u \in Users : u = Owner(s)
  BY <1>1, PresenceAssumption DEF Admit, Linked, Owner
<1> DEFINE rows == [socket EXCEPT ![s].pc = "admitted"]
<1>3. /\ socket[s].pc = "verifying" /\ presence' = Tracked(u, 1)
      /\ socket' = Emitted(rows, Told(u, 1)) /\ get' = get /\ tab' = tab
  BY <1>2 DEF Admit
<1>4. /\ rows \in [Sockets -> Socket] /\ rows[s].pc = "admitted"
      /\ \A x \in Sockets :
           /\ rows[x].tab = socket[x].tab /\ rows[x].inbox = socket[x].inbox
           /\ x # s => rows[x] = socket[x]
  BY <1>1 DEF Typed, Socket
<1>5. /\ Online' \subseteq Users
      /\ \A v \in Online' : presence'[v] \in Nat \ {0}
      /\ Follows(Told(u, 1), Online, Online')
      /\ \A v \in Users : Count(v)' =
           IF v # u THEN Count(v) ELSE IF Count(u) + 1 <= 0 THEN 0 ELSE Count(u) + 1
  BY <1>1, <1>2, <1>3, Tracking DEF Online, Count
<1> HIDE DEF rows
<1>6. /\ \A x \in Sockets :
           /\ rows[x].pc = "free" <=> socket[x].pc = "free"
           /\ rows[x].pc = "verifying" => socket[x].pc = "verifying"
           /\ Reached(rows[x]) => Reached(socket[x]) \/ socket[x].pc = "verifying"
  BY <1>3, <1>4
<1>7. socket' \in [Sockets -> Socket] /\ Linked' /\ Quiet' /\ Truth'
  BY <1>3, <1>4, <1>5, <1>6, Announced
<1>8. \A x \in Sockets : /\ socket'[x].tab = socket[x].tab
                         /\ socket'[x].pc = rows[x].pc
  <2>1. Told(u, 1) \in Seq(Event)
    BY <1>5, FollowingType
  <2> QED
    BY <1>3, <1>4, <2>1, Emitting
<1>9. CountsMatch'
  <2>1. \A v \in Users : Count(v) = Cardinality(Admitted(v))
    BY <1>1 DEF CountsMatch, Admitted
  <2>2. \A v \in Users \ {u} : Admitted(v)' = Admitted(v)
    BY <1>2, <1>3, <1>4, <1>8 DEF Admitted, Owner
  <2>3. Admitted(u)' = Admitted(u) \cup {s} /\ s \notin Admitted(u)
    BY <1>2, <1>3, <1>4, <1>8 DEF Admitted, Owner
  <2>4. /\ Cardinality(Admitted(u) \cup {s}) = Cardinality(Admitted(u)) + 1
        /\ Cardinality(Admitted(u)) \in Nat
    BY <2>3, AdmittedFinite, FS_AddElement
  <2>5. \A v \in Users \ {u} : Count(v)' = Cardinality(Admitted(v)')
    BY <1>5, <2>1, <2>2
  <2>6. Count(u) = Cardinality(Admitted(u))
    BY <1>2, <2>1
  <2>7. Count(u)' = Count(u) + 1
    BY <1>2, <1>5, <2>4, <2>6
  <2>8. \A v \in Users : Count(v)' = Cardinality(Admitted(v)')
    BY <2>3, <2>4, <2>5, <2>6, <2>7
  <2> QED
    BY <2>8 DEF CountsMatch, Admitted
<1> QED
  BY <1>1, <1>3, <1>5, <1>7, <1>9 DEF IInv, Typed

\* handleDisconnect counts an admitted socket down, and no other.
LEMMA DisconnectStep ==
  ASSUME IInv, NEW s \in Sockets, Disconnect(s)
  PROVE  IInv'
<1>1. Typed /\ Linked /\ Quiet /\ CountsMatch /\ Truth
  BY DEF IInv
<1>2. CASE socket[s].pc = "verifying"
  <2>1. /\ socket' = Closed(s) /\ UNCHANGED <<presence, get, tab>>
    BY <1>2 DEF Disconnect
  <2>2. /\ socket' \in [Sockets -> Socket]
        /\ \A x \in Sockets :
             /\ socket'[x].tab = socket[x].tab /\ socket'[x].pc = socket[x].pc
             /\ socket'[x].inbox = socket[x].inbox
             /\ Reached(socket'[x]) => Reached(socket[x])
    BY <2>1, <1>1 DEF Closed, Typed, Socket, Reached
  <2>3. CountsMatch'
    BY <2>1, <2>2, <1>1, CountKept
  <2>4. Typed' /\ Linked' /\ Quiet'
    BY <2>1, <2>2, <1>1 DEF Typed, Linked, Quiet, Waiting, Online
  <2>5. Truth'
    BY <2>1, <2>2, <1>1 DEF Truth, Listening, Linked, Inbox, Online
  <2> QED
    BY <2>3, <2>4, <2>5 DEF IInv
<1>3. CASE socket[s].pc = "admitted"
  <2>1. PICK u \in Users : u = Owner(s)
    BY <1>1, <1>3, PresenceAssumption DEF Linked, Owner
  <2> DEFINE rows == [Closed(s) EXCEPT ![s].pc = "left"]
  <2>2. /\ presence' = Tracked(u, -1)
        /\ socket' = Emitted(rows, Told(u, -1)) /\ get' = get /\ tab' = tab
    BY <1>3, <2>1 DEF Disconnect
  <2>3. /\ rows \in [Sockets -> Socket] /\ rows[s].pc = "left"
        /\ \A x \in Sockets :
             /\ rows[x].tab = socket[x].tab /\ rows[x].inbox = socket[x].inbox
             /\ x # s => rows[x] = socket[x]
    BY <1>1 DEF Typed, Socket, Closed
  <2>4. /\ Online' \subseteq Users
        /\ \A v \in Online' : presence'[v] \in Nat \ {0}
        /\ Follows(Told(u, -1), Online, Online')
        /\ \A v \in Users : Count(v)' =
             IF v # u THEN Count(v)
             ELSE IF Count(u) + (-1) <= 0 THEN 0 ELSE Count(u) + (-1)
    BY <1>1, <2>1, <2>2, Tracking DEF Online, Count
  <2> HIDE DEF rows
  <2>5. /\ \A x \in Sockets :
             /\ rows[x].pc = "free" <=> socket[x].pc = "free"
             /\ rows[x].pc = "verifying" => socket[x].pc = "verifying"
             /\ Reached(rows[x]) => Reached(socket[x])
    BY <1>3, <2>3 DEF Reached
  <2>6. socket' \in [Sockets -> Socket] /\ Linked' /\ Quiet' /\ Truth'
    BY <2>2, <2>3, <2>4, <2>5, Announced
  <2>7. \A x \in Sockets : /\ socket'[x].tab = socket[x].tab
                           /\ socket'[x].pc = rows[x].pc
    <3>1. Told(u, -1) \in Seq(Event)
      BY <2>4, FollowingType
    <3> QED
      BY <2>2, <2>3, <3>1, Emitting
  <2>8. CountsMatch'
    <3>1. \A v \in Users : Count(v) = Cardinality(Admitted(v))
      BY <1>1 DEF CountsMatch, Admitted
    <3>2. \A v \in Users \ {u} : Admitted(v)' = Admitted(v)
      BY <1>3, <2>1, <2>3, <2>7 DEF Admitted, Owner
    <3>3. Admitted(u)' = Admitted(u) \ {s} /\ s \in Admitted(u)
      BY <1>3, <2>1, <2>3, <2>7 DEF Admitted, Owner
    <3>4. /\ Cardinality(Admitted(u) \ {s}) = Cardinality(Admitted(u)) - 1
          /\ Cardinality(Admitted(u) \ {s}) \in Nat
          /\ Cardinality(Admitted(u)) \in Nat
      BY <3>3, AdmittedFinite, FS_RemoveElement, FS_CardinalityType
    <3>5. \A v \in Users \ {u} : Count(v)' = Cardinality(Admitted(v)')
      BY <2>4, <3>1, <3>2
    <3>6. Count(u) = Cardinality(Admitted(u))
      BY <2>1, <3>1
    <3>7. Count(u)' = Cardinality(Admitted(u)) - 1
      BY <2>1, <2>4, <3>4, <3>6
    <3>8. \A v \in Users : Count(v)' = Cardinality(Admitted(v)')
      BY <3>3, <3>4, <3>5, <3>7
    <3> QED
      BY <3>8 DEF CountsMatch, Admitted
  <2> QED
    BY <1>1, <2>2, <2>4, <2>6, <2>8 DEF IInv, Typed
<1> QED
  BY <1>2, <1>3 DEF Disconnect

\* A rejected socket was never sent anything.
LEMMA RejectStep ==
  ASSUME IInv, NEW s \in Sockets, Reject(s)
  PROVE  IInv'
<1>1. Typed /\ Linked /\ Quiet /\ CountsMatch /\ Truth
  BY DEF IInv
<1>2. /\ socket' = [socket EXCEPT ![s].pc = "rejected", ![s].open = FALSE]
      /\ socket[s].pc = "verifying" /\ UNCHANGED <<presence, get, tab>>
  BY DEF Reject
<1>3. /\ socket' \in [Sockets -> Socket]
      /\ \A x \in Sockets :
           /\ socket'[x].tab = socket[x].tab
           /\ socket'[x].inbox = socket[x].inbox
           /\ socket'[x].pc = IF x = s THEN "rejected" ELSE socket[x].pc
           /\ Reached(socket'[x]) => Reached(socket[x])
  BY <1>1, <1>2 DEF Typed, Socket, Reached
<1>4. CountsMatch'
  BY <1>1, <1>2, <1>3, CountKept
<1>5. Typed' /\ Linked' /\ Quiet'
  BY <1>1, <1>2, <1>3 DEF Typed, Linked, Quiet, Waiting, Online
<1>6. Truth'
  BY <1>1, <1>2, <1>3 DEF Truth, Listening, Linked, Inbox, Online
<1> QED
  BY <1>4, <1>5, <1>6 DEF IInv

\* A snapshot is right about everybody at the moment it is taken; what its tab
\* has not heard yet will correct it.
LEMMA AnswerStep ==
  ASSUME IInv, NEW g \in Gets, Answer(g)
  PROVE  IInv'
<1> DEFINE t == get[g].tab
           s == tab[t].socket
           known == IF s # NULL /\ Reached(socket[s]) THEN Users ELSE {}
<1>1. Typed /\ Linked /\ Quiet /\ CountsMatch /\ Truth
  BY DEF IInv
<1>2. /\ get' = [get EXCEPT ![g].pc = "answered", ![g].seen = Online,
                            ![g].valid = known]
      /\ get[g].pc = "asked" /\ UNCHANGED <<presence, socket, tab>>
  BY DEF Answer
<1> known \in SUBSET Users /\ Online \in SUBSET Users
  BY <1>1 DEF Typed
<1> HIDE DEF known
<1>3. /\ get' \in [Gets -> Get] /\ t \in Tabs
      /\ \A h \in Gets : h # g => get'[h] = get[h]
      /\ get'[g].tab = t /\ get'[g].pc = "answered"
      /\ get'[g].seen = Online /\ get'[g].valid = known
  <2>1. t \in Tabs
    BY <1>1, <1>2 DEF Linked
  <2>2. get[g] \in Get
    BY <1>1 DEF Typed
  <2>3. get'[g] = [get[g] EXCEPT !.pc = "answered", !.seen = Online,
                                 !.valid = known]
    BY <1>1, <1>2 DEF Typed
  <2>4. \A h \in Gets : h # g => get'[h] = get[h]
    BY <1>1, <1>2 DEF Typed
  <2>5. /\ get'[g] \in Get
        /\ get'[g].tab = t /\ get'[g].pc = "answered"
        /\ get'[g].seen = Online /\ get'[g].valid = known
    BY <2>2, <2>3 DEF Get
  <2>6. get' \in [Gets -> Get]
    BY <1>1, <1>2, <2>4, <2>5 DEF Typed
  <2> QED
    BY <2>1, <2>4, <2>5, <2>6
<1>4. CountsMatch'
  BY <1>1, <1>2, CountKept
<1>5. Waiting(t) => known = {}
  BY <1>1, <1>3 DEF Waiting, Reached, Linked, known
<1>6. Typed' /\ Linked'
  BY <1>1, <1>2, <1>3 DEF Typed, Linked, Online
<1>7. Quiet'
  BY <1>1, <1>2, <1>3, <1>5 DEF Quiet, Waiting
<1>8. Truth'
  <2> SUFFICES ASSUME NEW x \in Tabs, Listening(x)
               PROVE  \A h \in Gets :
                        get'[h].pc = "answered" /\ get'[h].tab = x =>
                          Vouches(Inbox(x), Online, get'[h].valid, get'[h].seen)
    BY <1>1, <1>2 DEF Truth, Listening, Inbox, Online
  <2>1. Vouches(Inbox(x), Online, known, Online)
    BY DEF Vouches
  <2> QED
    BY <2>1, <1>1, <1>3 DEF Truth
<1> QED
  BY <1>4, <1>6, <1>7, <1>8 DEF IInv

\* The tab takes over what the snapshot knows.
LEMMA ApplyStep ==
  ASSUME IInv, NEW g \in Gets, Apply(g)
  PROVE  IInv'
<1> DEFINE t == get[g].tab
<1>1. Typed /\ Linked /\ Quiet /\ CountsMatch /\ Truth
  BY DEF IInv
<1>2. /\ tab' = [tab EXCEPT ![t].onlineUserIds = get[g].seen,
                            ![t].sure = get[g].valid]
      /\ get' = [get EXCEPT ![g] = NoGet]
      /\ get[g].pc = "answered" /\ UNCHANGED <<presence, socket>>
  BY DEF Apply
<1>3. /\ NoGet.pc = "free" /\ NoGet.tab = NULL /\ NULL \notin Tabs
      /\ NoGet.valid = {}
  BY PresenceAssumption DEF NoGet
<1>4. /\ t \in Tabs /\ get[g] \in Get
      /\ get' \in [Gets -> Get] /\ tab' \in [Tabs -> Tab]
      /\ \A h \in Gets : \/ get'[h] = get[h]
                         \/ /\ get'[h].pc = "free" /\ get'[h].tab \notin Tabs
                            /\ get'[h].valid = {}
      /\ \A x \in Tabs : /\ tab'[x].mounted = tab[x].mounted
                         /\ tab'[x].socket = tab[x].socket
                         /\ x # t => tab'[x] = tab[x]
      /\ tab'[t].sure = get[g].valid
      /\ tab'[t].onlineUserIds = get[g].seen
  BY SMTT(60), <1>1, <1>2, <1>3 DEF Typed, Get, Tab, Linked, NoGet
<1>5. CountsMatch'
  BY <1>1, <1>2, CountKept
<1>6. /\ presence' = presence /\ socket' = socket
      /\ get[g].pc = "answered" /\ Online' = Online
  BY <1>2 DEF Online
<1>7. Typed'
  BY <1>1, <1>4, <1>6 DEF Typed
<1>8. Linked'
  BY <1>1, <1>4, <1>6 DEF Linked
<1>9. Quiet'
  <2> SUFFICES ASSUME NEW x \in Tabs, Waiting(x)'
               PROVE  /\ tab'[x].mounted => socket'[tab'[x].socket].inbox = <<>>
                      /\ tab'[x].sure = {}
                      /\ \A h \in Gets : get'[h].tab = x => get'[h].valid = {}
    BY DEF Quiet
  <2>1. Waiting(x)
    BY <1>4, <1>6 DEF Waiting
  <2>2. /\ tab[x].mounted => socket[tab[x].socket].inbox = <<>>
        /\ tab[x].sure = {}
        /\ \A h \in Gets : get[h].tab = x => get[h].valid = {}
    BY <2>1, <1>1 DEF Quiet
  <2> QED
    BY <2>2, <1>4, <1>6
<1>10. Truth'
  <2> SUFFICES ASSUME NEW x \in Tabs, Listening(x)'
               PROVE  /\ Agrees(Inbox(x)', Online')
                      /\ Vouches(Inbox(x)', Online', tab'[x].sure,
                                 tab'[x].onlineUserIds)
                      /\ \A h \in Gets :
                           get'[h].pc = "answered" /\ get'[h].tab = x =>
                             Vouches(Inbox(x)', Online', get'[h].valid, get'[h].seen)
    BY DEF Truth
  <2>1. Listening(x) /\ Inbox(x)' = Inbox(x)
    BY <1>4, <1>6 DEF Listening, Inbox
  <2>2. /\ Agrees(Inbox(x), Online)
        /\ Vouches(Inbox(x), Online, tab[x].sure, tab[x].onlineUserIds)
        /\ \A h \in Gets : get[h].pc = "answered" /\ get[h].tab = x =>
             Vouches(Inbox(x), Online, get[h].valid, get[h].seen)
    BY <2>1, <1>1 DEF Truth
  <2> QED
    BY <2>1, <2>2, <1>4, <1>6
<1> QED
  BY <1>5, <1>7, <1>8, <1>9, <1>10 DEF IInv

\* A lost snapshot vouches for nobody.
LEMMA LoseGetStep ==
  ASSUME IInv, NEW g \in Gets, LoseGet(g)
  PROVE  IInv'
<1>1. Typed /\ Linked /\ Quiet /\ CountsMatch /\ Truth
  BY DEF IInv
<1>2. get' = [get EXCEPT ![g] = NoGet] /\ UNCHANGED <<presence, socket, tab>>
  BY DEF LoseGet
<1>3. /\ NoGet.pc = "free" /\ NoGet.tab = NULL /\ NULL \notin Tabs
      /\ NoGet.valid = {}
  BY PresenceAssumption DEF NoGet
<1>4. /\ get' \in [Gets -> Get]
      /\ \A h \in Gets : \/ get'[h] = get[h]
                         \/ /\ get'[h].pc = "free" /\ get'[h].tab \notin Tabs
                            /\ get'[h].valid = {}
  BY <1>1, <1>2, <1>3 DEF Typed, Get, NoGet
<1>5. CountsMatch'
  BY <1>1, <1>2, CountKept
<1>6. Typed' /\ Linked' /\ Quiet'
  BY <1>1, <1>2, <1>4 DEF Typed, Linked, Quiet, Waiting, Online
<1>7. Truth'
  BY <1>1, <1>2, <1>4 DEF Truth, Listening, Inbox, Online
<1> QED
  BY <1>5, <1>6, <1>7 DEF IInv

\* Taking users back from what a tab's snapshots vouch for.
LEMMA Overtaking ==
  ASSUME Typed, NEW t \in Tabs, NEW U
  PROVE  /\ Overtaken(t, U) \in [Gets -> Get]
         /\ \A g \in Gets :
              /\ Overtaken(t, U)[g].pc = get[g].pc
              /\ Overtaken(t, U)[g].tab = get[g].tab
              /\ Overtaken(t, U)[g].seen = get[g].seen
              /\ Overtaken(t, U)[g].valid =
                   IF get[g].tab = t THEN get[g].valid \ U ELSE get[g].valid
<1> SUFFICES ASSUME NEW g \in Gets
             PROVE  /\ Overtaken(t, U)[g] \in Get
                    /\ Overtaken(t, U)[g].pc = get[g].pc
                    /\ Overtaken(t, U)[g].tab = get[g].tab
                    /\ Overtaken(t, U)[g].seen = get[g].seen
                    /\ Overtaken(t, U)[g].valid =
                         IF get[g].tab = t THEN get[g].valid \ U
                                           ELSE get[g].valid
  BY DEF Overtaken
<1>1. get[g] \in Get /\ get[g].valid \ U \in SUBSET Users
  BY DEF Typed, Get
<1>2. Overtaken(t, U)[g] =
        IF get[g].tab = t THEN [get[g] EXCEPT !.valid = get[g].valid \ U]
                          ELSE get[g]
  BY DEF Overtaken
<1> QED
  BY <1>1, <1>2 DEF Get

\* A tab that changes its socket takes back all its snapshots under way know.
LEMMA AllOvertaken ==
  ASSUME Typed, Linked, NEW t \in Tabs, get' = Overtaken(t, Users)
  PROVE  /\ get' \in [Gets -> Get]
         /\ \A h \in Gets : /\ get'[h].tab = t => get'[h].valid = {}
                            /\ get'[h].tab # t => get'[h] = get[h]
                            /\ get'[h].pc # "free" => get'[h].tab \in Tabs
<1>1. /\ get' \in [Gets -> Get]
      /\ \A h \in Gets :
           /\ get'[h].pc = get[h].pc /\ get'[h].tab = get[h].tab
           /\ get'[h].valid = IF get[h].tab = t THEN get[h].valid \ Users
                                                ELSE get[h].valid
  BY Overtaking
<1>2. \A h \in Gets : get[h].valid \ Users = {}
  BY DEF Typed, Get
<1>3. \A h \in Gets : get[h].tab # t => get'[h] = get[h]
  BY DEF Overtaken
<1> QED
  BY ZenonT(60), <1>1, <1>2, <1>3 DEF Linked

\* Mount, Reconnect and Unmount: the tab starts anew or is gone, the others
\* see no difference.
LEMMA TabChanged ==
  ASSUME IInv, NEW t \in Tabs, presence' = presence,
         socket' \in [Sockets -> Socket], tab' \in [Tabs -> Tab],
         get' \in [Gets -> Get],
         \A x \in Tabs \ {t} : tab'[x] = tab[x],
         tab'[t].mounted =>
           /\ tab'[t].socket \in Sockets
           /\ socket'[tab'[t].socket].pc = "verifying"
           /\ socket'[tab'[t].socket].tab = t
           /\ socket'[tab'[t].socket].inbox = <<>>,
         ~tab'[t].mounted => tab'[t].socket = NULL,
         tab'[t].sure = {},
         \A s \in Sockets :
           \/ /\ socket'[s].pc = socket[s].pc /\ socket'[s].tab = socket[s].tab
              /\ socket'[s].open = socket[s].open
              /\ socket'[s].inbox = socket[s].inbox \/ socket[s].tab = t
           \/ /\ socket[s].pc = "free" /\ socket'[s].pc = "verifying"
              /\ socket'[s].tab = t,
         \A g \in Gets :
           /\ get'[g].tab = t => get'[g].valid = {}
           /\ get'[g].tab # t => get'[g] = get[g]
           /\ get'[g].pc # "free" => get'[g].tab \in Tabs
  PROVE  IInv'
<1>1. Typed /\ Linked /\ Quiet /\ CountsMatch /\ Truth
  BY DEF IInv
<1>2. Online' = Online
  BY DEF Online
<1>3. Typed'
  BY <1>1, <1>2 DEF Typed
<1>4. CountsMatch'
  BY <1>1, CountKept
<1>5. ASSUME NEW x \in Tabs \ {t}, tab[x].mounted
      PROVE  /\ tab[x].socket \in Sockets
             /\ socket'[tab[x].socket].pc = socket[tab[x].socket].pc
             /\ socket'[tab[x].socket].pc # "free"
             /\ socket'[tab[x].socket].tab = x
             /\ socket'[tab[x].socket].open = socket[tab[x].socket].open
             /\ socket'[tab[x].socket].inbox = socket[tab[x].socket].inbox
  BY <1>1, <1>5 DEF Linked
<1>6. Linked'
  <2>1. \A s \in Sockets : socket'[s].pc # "free" => socket'[s].tab \in Tabs
    BY <1>1 DEF Linked
  <2>2. \A x \in Tabs : tab'[x].mounted =>
          /\ tab'[x].socket \in Sockets
          /\ socket'[tab'[x].socket].pc # "free"
          /\ socket'[tab'[x].socket].tab = x
    BY <1>5
  <2>3. \A x \in Tabs : ~tab'[x].mounted => tab'[x].socket = NULL
    BY <1>1 DEF Linked
  <2>4. \A g \in Gets : IF get'[g].pc = "free" THEN get'[g].valid = {}
                                            ELSE get'[g].tab \in Tabs
    BY <1>1 DEF Linked
  <2> QED
    BY <2>1, <2>2, <2>3, <2>4 DEF Linked
<1>7. Quiet'
  <2> SUFFICES ASSUME NEW x \in Tabs, Waiting(x)'
               PROVE  /\ tab'[x].mounted => socket'[tab'[x].socket].inbox = <<>>
                      /\ tab'[x].sure = {}
                      /\ \A h \in Gets : get'[h].tab = x => get'[h].valid = {}
    BY DEF Quiet
  <2>1. CASE x = t
    BY <2>1
  <2>2. CASE x # t
    <3>1. Waiting(x)
      BY <2>2, <1>5 DEF Waiting
    <3>2. /\ tab[x].mounted => socket[tab[x].socket].inbox = <<>>
          /\ tab[x].sure = {}
          /\ \A h \in Gets : get[h].tab = x => get[h].valid = {}
      BY <3>1, <1>1 DEF Quiet
    <3> QED
      BY <2>2, <3>2, <1>5
  <2> QED
    BY <2>1, <2>2
<1>8. Truth'
  <2> SUFFICES ASSUME NEW x \in Tabs, Listening(x)'
               PROVE  /\ Agrees(Inbox(x)', Online')
                      /\ Vouches(Inbox(x)', Online', tab'[x].sure,
                                 tab'[x].onlineUserIds)
                      /\ \A h \in Gets :
                           get'[h].pc = "answered" /\ get'[h].tab = x =>
                             Vouches(Inbox(x)', Online', get'[h].valid, get'[h].seen)
    BY DEF Truth
  <2>1. x # t /\ tab'[x] = tab[x] /\ tab[x].mounted
    BY DEF Listening, Reached
  <2>2. Listening(x) /\ Inbox(x)' = Inbox(x)
    BY <2>1, <1>5 DEF Listening, Inbox, Reached
  <2>3. /\ Agrees(Inbox(x), Online)
        /\ Vouches(Inbox(x), Online, tab[x].sure, tab[x].onlineUserIds)
        /\ \A h \in Gets : get[h].pc = "answered" /\ get[h].tab = x =>
             Vouches(Inbox(x), Online, get[h].valid, get[h].seen)
    BY <2>2, <1>1 DEF Truth
  <2> QED
    BY <2>1, <2>2, <2>3, <1>2
<1> QED
  BY <1>3, <1>4, <1>6, <1>7, <1>8 DEF IInv

\* A new tab waits for its socket and knows nothing.
LEMMA MountStep ==
  ASSUME IInv, NEW t \in Tabs, NEW s \in Sockets, NEW g \in Gets, Mount(t, s, g)
  PROVE  IInv'
<1>1. Typed /\ Linked /\ Quiet
  BY DEF IInv
<1>2. /\ ~tab[t].mounted /\ socket[s].pc = "free" /\ get[g].pc = "free"
      /\ socket' = [socket EXCEPT ![s] = Connecting(t)]
      /\ get' = [get EXCEPT ![g].pc = "asked", ![g].tab = t]
      /\ tab' = [tab EXCEPT ![t].mounted = TRUE, ![t].socket = s]
      /\ presence' = presence
  BY DEF Mount
<1>3. /\ Connecting(t) \in Socket /\ Connecting(t).pc = "verifying"
      /\ Connecting(t).tab = t /\ Connecting(t).inbox = <<>>
  <2>1. <<>> \in Seq(Event)
    OBVIOUS
  <2> QED
    BY <2>1 DEF Connecting, Socket
<1>4. /\ socket' \in [Sockets -> Socket] /\ socket'[s] = Connecting(t)
      /\ \A x \in Sockets : x # s => socket'[x] = socket[x]
  BY <1>1, <1>2, <1>3 DEF Typed
<1>5. /\ tab' \in [Tabs -> Tab]
      /\ \A x \in Tabs \ {t} : tab'[x] = tab[x]
      /\ tab'[t].mounted /\ tab'[t].socket = s /\ tab'[t].sure = tab[t].sure
  BY <1>1, <1>2 DEF Typed, Tab
<1>6. /\ tab[t].sure = {}
      /\ \A h \in Gets : get[h].tab = t => get[h].valid = {}
  BY <1>1, <1>2 DEF Quiet, Waiting
<1>7. /\ get' \in [Gets -> Get]
      /\ \A h \in Gets : h # g => get'[h] = get[h]
      /\ get'[g].tab = t /\ get'[g].pc = "asked" /\ get'[g].valid = {}
  <2>1. get[g] \in Get /\ get[g].valid = {}
    BY <1>1, <1>2 DEF Typed, Linked
  <2>2. get' = [get EXCEPT ![g] = [get[g] EXCEPT !.pc = "asked", !.tab = t]]
    BY <1>1, <1>2 DEF Typed
  <2> DEFINE asked == [get[g] EXCEPT !.pc = "asked", !.tab = t]
  <2>3. /\ asked \in Get /\ asked.tab = t /\ asked.pc = "asked"
        /\ asked.valid = {}
    BY <2>1 DEF Get
  <2> HIDE DEF asked
  <2>4. get' = [get EXCEPT ![g] = asked] /\ get \in [Gets -> Get]
    BY <2>2, <1>1 DEF Typed, asked
  <2> QED
    BY <2>3, <2>4
<1>8. \A h \in Gets :
        /\ get'[h].tab = t => get'[h].valid = {}
        /\ get'[h].tab # t => get'[h] = get[h]
        /\ get'[h].pc # "free" => get'[h].tab \in Tabs
  BY <1>1, <1>6, <1>7 DEF Linked
<1> QED
  BY <1>2, <1>3, <1>4, <1>5, <1>6, <1>7, <1>8, TabChanged

\* A reconnected tab may have missed events about anybody.
LEMMA ReconnectStep ==
  ASSUME IInv, NEW t \in Tabs, NEW s \in Sockets, Reconnect(t, s)
  PROVE  IInv'
<1> DEFINE old == tab[t].socket
           cleared == [socket EXCEPT ![old].inbox = <<>>]
<1>1. Typed /\ Linked /\ Quiet
  BY DEF IInv
<1>2. /\ tab[t].mounted /\ socket[s].pc = "free"
      /\ socket' = [cleared EXCEPT ![s] = Connecting(t)]
      /\ get' = Overtaken(t, Users)
      /\ tab' = [tab EXCEPT ![t].socket = s, ![t].sure = {}]
      /\ presence' = presence
  BY DEF Reconnect
<1>3. /\ Connecting(t) \in Socket /\ Connecting(t).pc = "verifying"
      /\ Connecting(t).tab = t /\ Connecting(t).inbox = <<>>
      /\ <<>> \in Seq(Event)
  <2>1. <<>> \in Seq(Event)
    OBVIOUS
  <2> QED
    BY <2>1 DEF Connecting, Socket
<1>4. /\ old \in Sockets /\ socket[old].tab = t /\ old # s
  BY <1>1, <1>2 DEF Linked
<1>5. /\ cleared \in [Sockets -> Socket]
      /\ \A x \in Sockets :
           /\ cleared[x].pc = socket[x].pc /\ cleared[x].tab = socket[x].tab
           /\ cleared[x].open = socket[x].open
           /\ x # old => cleared[x] = socket[x]
  BY <1>1, <1>3, <1>4 DEF Typed, Socket
<1> HIDE DEF cleared
<1>6. /\ socket' \in [Sockets -> Socket] /\ socket'[s] = Connecting(t)
      /\ \A x \in Sockets : x # s => socket'[x] = cleared[x]
  BY <1>2, <1>3, <1>5
<1>7. /\ tab' \in [Tabs -> Tab]
      /\ \A x \in Tabs \ {t} : tab'[x] = tab[x]
      /\ tab'[t].mounted /\ tab'[t].socket = s /\ tab'[t].sure = {}
  BY <1>1, <1>2 DEF Typed, Tab
<1>8. /\ get' \in [Gets -> Get]
      /\ \A h \in Gets : /\ get'[h].tab = t => get'[h].valid = {}
                         /\ get'[h].tab # t => get'[h] = get[h]
                         /\ get'[h].pc # "free" => get'[h].tab \in Tabs
  BY <1>1, <1>2, AllOvertaken
<1>9. \A x \in Sockets :
        \/ /\ socket'[x].pc = socket[x].pc /\ socket'[x].tab = socket[x].tab
           /\ socket'[x].open = socket[x].open
           /\ socket'[x].inbox = socket[x].inbox \/ socket[x].tab = t
        \/ /\ socket[x].pc = "free" /\ socket'[x].pc = "verifying"
           /\ socket'[x].tab = t
  BY <1>2, <1>3, <1>4, <1>5, <1>6
<1> QED
  BY <1>2, <1>3, <1>6, <1>7, <1>8, <1>9, TabChanged

\* The tab is gone, its socket is not.
LEMMA UnmountStep ==
  ASSUME IInv, NEW t \in Tabs, Unmount(t)
  PROVE  IInv'
<1> DEFINE old == tab[t].socket
           gone == [mounted |-> FALSE, socket |-> NULL,
                    onlineUserIds |-> {}, sure |-> {}]
<1>1. Typed /\ Linked /\ Quiet
  BY DEF IInv
<1>2. /\ tab[t].mounted
      /\ socket' = [socket EXCEPT ![old].inbox = <<>>]
      /\ get' = Overtaken(t, Users)
      /\ tab' = [tab EXCEPT ![t] = gone]
      /\ presence' = presence
  BY DEF Unmount
<1>3. /\ old \in Sockets /\ socket[old].tab = t
  BY <1>1, <1>2 DEF Linked
<1>4. /\ socket' \in [Sockets -> Socket]
      /\ \A x \in Sockets :
           /\ socket'[x].pc = socket[x].pc /\ socket'[x].tab = socket[x].tab
           /\ socket'[x].open = socket[x].open
           /\ x # old => socket'[x] = socket[x]
  <2>1. <<>> \in Seq(Event)
    OBVIOUS
  <2> QED
    BY ZenonT(60), <2>1, <1>1, <1>2, <1>3 DEF Typed, Socket
<1>5. /\ tab' \in [Tabs -> Tab]
      /\ \A x \in Tabs \ {t} : tab'[x] = tab[x]
      /\ ~tab'[t].mounted /\ tab'[t].socket = NULL /\ tab'[t].sure = {}
  BY <1>1, <1>2 DEF Typed, Tab
<1>6. /\ get' \in [Gets -> Get]
      /\ \A h \in Gets : /\ get'[h].tab = t => get'[h].valid = {}
                         /\ get'[h].tab # t => get'[h] = get[h]
                         /\ get'[h].pc # "free" => get'[h].tab \in Tabs
  BY <1>1, <1>2, AllOvertaken
<1>7. \A x \in Sockets :
        \/ /\ socket'[x].pc = socket[x].pc /\ socket'[x].tab = socket[x].tab
           /\ socket'[x].open = socket[x].open
           /\ socket'[x].inbox = socket[x].inbox \/ socket[x].tab = t
        \/ /\ socket[x].pc = "free" /\ socket'[x].pc = "verifying"
           /\ socket'[x].tab = t
  BY <1>3, <1>4
<1> QED
  BY <1>2, <1>4, <1>5, <1>6, <1>7, TabChanged

\* The first event of an inbox and the others.
LEMMA HeadAndTail ==
  ASSUME NEW q \in Seq(Event), q # <<>>
  PROVE  Tail(q) \in Seq(Event) /\ Head(q) \in Event
OBVIOUS

\* Hearing an event settles its user and overtakes the snapshots under way.
LEMMA DeliverStep ==
  ASSUME IInv, NEW t \in Tabs, Deliver(t)
  PROVE  IInv'
<1>1. Typed /\ Linked /\ Quiet /\ CountsMatch /\ Truth
  BY DEF IInv
<1>2. PICK s, q, u, V :
        /\ tab[t].mounted /\ s = tab[t].socket
        /\ q = socket[s].inbox /\ q # <<>> /\ u = Head(q).user
        /\ V = IF Head(q).online THEN tab[t].onlineUserIds \cup {u}
                                 ELSE tab[t].onlineUserIds \ {u}
        /\ tab' = [tab EXCEPT ![t].onlineUserIds = V,
                              ![t].sure = tab[t].sure \cup {u}]
        /\ get' = Overtaken(t, {u})
        /\ socket' = [socket EXCEPT ![s].inbox = Tail(q)]
        /\ presence' = presence
  BY DEF Deliver
<1>3. s \in Sockets /\ socket[s] \in Socket /\ socket[s].tab = t
  BY <1>1, <1>2 DEF Typed, Linked
<1>4. q \in Seq(Event) /\ Tail(q) \in Seq(Event) /\ u \in Users
  <2>1. q \in Seq(Event)
    BY <1>2, <1>3 DEF Socket
  <2>2. Tail(q) \in Seq(Event) /\ Head(q) \in Event
    BY <2>1, <1>2, HeadAndTail
  <2> QED
    BY <2>1, <2>2, <1>2 DEF Event
<1>5. /\ socket' \in [Sockets -> Socket]
      /\ \A x \in Sockets :
           /\ socket'[x].pc = socket[x].pc /\ socket'[x].tab = socket[x].tab
           /\ socket'[x].open = socket[x].open
           /\ x # s => socket'[x] = socket[x]
      /\ socket'[s].inbox = Tail(q)
  BY <1>1, <1>2, <1>3, <1>4 DEF Typed, Socket
<1>6. V \in SUBSET Users /\ tab[t].sure \cup {u} \in SUBSET Users
  BY <1>1, <1>2, <1>4 DEF Typed, Tab
<1>7. /\ tab' \in [Tabs -> Tab]
      /\ \A x \in Tabs : /\ tab'[x].mounted = tab[x].mounted
                         /\ tab'[x].socket = tab[x].socket
                         /\ x # t => tab'[x] = tab[x]
      /\ tab'[t].onlineUserIds = V /\ tab'[t].sure = tab[t].sure \cup {u}
  <2>1. tab \in [Tabs -> Tab] /\ tab[t] \in Tab
    BY <1>1 DEF Typed
  <2>2. PICK told : told = [tab[t] EXCEPT !.onlineUserIds = V,
                                          !.sure = tab[t].sure \cup {u}]
    OBVIOUS
  <2>3. /\ told \in Tab /\ told.mounted = tab[t].mounted
        /\ told.socket = tab[t].socket /\ told.onlineUserIds = V
        /\ told.sure = tab[t].sure \cup {u}
    BY <2>1, <2>2, <1>6 DEF Tab
  <2>4. tab' = [tab EXCEPT ![t] = told]
    BY <2>1, <2>2, <1>2
  <2> QED
    BY <2>1, <2>3, <2>4
<1>8. /\ get' \in [Gets -> Get]
      /\ \A h \in Gets :
           /\ get'[h].pc = get[h].pc /\ get'[h].tab = get[h].tab
           /\ get'[h].seen = get[h].seen
           /\ get'[h].valid = IF get[h].tab = t THEN get[h].valid \ {u}
                                                ELSE get[h].valid
  <2>1. PICK U : U = {u}
    OBVIOUS
  <2>2. Typed /\ get' = Overtaken(t, U)
    BY <2>1, <1>1, <1>2
  <2>3. /\ get' \in [Gets -> Get]
        /\ \A h \in Gets :
             /\ get'[h].pc = get[h].pc /\ get'[h].tab = get[h].tab
             /\ get'[h].seen = get[h].seen
             /\ get'[h].valid = IF get[h].tab = t THEN get[h].valid \ U
                                                  ELSE get[h].valid
    BY <2>2, Overtaking
  <2> QED
    BY <2>1, <2>3
<1>9. ~Waiting(t)
  BY <1>1, <1>2 DEF Quiet
<1>10. \A x \in Tabs : tab[x].mounted =>
         /\ tab[x].socket \in Sockets
         /\ x # t => tab[x].socket # s
  BY <1>1, <1>3 DEF Linked
<1>11. Online' = Online
  BY <1>2 DEF Online
<1>12. Typed'
  BY <1>1, <1>2, <1>5, <1>7, <1>8, <1>11 DEF Typed
<1>13. Linked'
  <2>1. \A x \in Sockets : socket'[x].pc # "free" => socket'[x].tab \in Tabs
    BY <1>1, <1>5 DEF Linked
  <2>2. \A h \in Gets : IF get'[h].pc = "free" THEN get'[h].valid = {}
                                            ELSE get'[h].tab \in Tabs
    <3>1. \A h \in Gets : IF get[h].pc = "free" THEN get[h].valid = {}
                                             ELSE get[h].tab \in Tabs
      BY <1>1 DEF Linked
    <3> QED
      BY <3>1, <1>8
  <2>3. \A x \in Tabs : tab'[x].mounted =>
          /\ tab'[x].socket \in Sockets
          /\ socket'[tab'[x].socket].pc # "free"
          /\ socket'[tab'[x].socket].tab = x
    BY <1>1, <1>5, <1>7 DEF Linked
  <2>4. \A x \in Tabs : ~tab'[x].mounted => tab'[x].socket = NULL
    BY <1>1, <1>7 DEF Linked
  <2> QED
    BY <2>1, <2>2, <2>3, <2>4 DEF Linked
<1>14. CountsMatch'
  BY <1>1, <1>2, <1>5, CountKept
<1>15. Quiet'
  <2> SUFFICES ASSUME NEW x \in Tabs, Waiting(x)'
               PROVE  /\ tab'[x].mounted => socket'[tab'[x].socket].inbox = <<>>
                      /\ tab'[x].sure = {}
                      /\ \A h \in Gets : get'[h].tab = x => get'[h].valid = {}
    BY DEF Quiet
  <2>1. Waiting(x)
    BY <1>5, <1>7, <1>10 DEF Waiting
  <2>2. x # t
    BY <2>1, <1>9
  <2>3. /\ tab[x].mounted => socket[tab[x].socket].inbox = <<>>
        /\ tab[x].sure = {}
        /\ \A h \in Gets : get[h].tab = x => get[h].valid = {}
    BY <2>1, <1>1 DEF Quiet
  <2>4. /\ tab'[x].mounted => socket'[tab'[x].socket].inbox = <<>>
        /\ tab'[x].sure = {}
    BY <2>2, <2>3, <1>5, <1>7, <1>10
  <2>5. \A h \in Gets : get'[h].tab = x => get'[h].valid = {}
    BY <2>2, <2>3, <1>8
  <2> QED
    BY <2>4, <2>5
<1>16. Truth'
  <2> SUFFICES ASSUME NEW x \in Tabs, Listening(x)'
               PROVE  /\ Agrees(Inbox(x)', Online')
                      /\ Vouches(Inbox(x)', Online', tab'[x].sure,
                                 tab'[x].onlineUserIds)
                      /\ \A h \in Gets :
                           get'[h].pc = "answered" /\ get'[h].tab = x =>
                             Vouches(Inbox(x)', Online', get'[h].valid, get'[h].seen)
    BY DEF Truth
  <2>1. Listening(x)
    BY <1>5, <1>7, <1>10 DEF Listening, Reached
  <2>2. /\ Agrees(Inbox(x), Online)
        /\ Vouches(Inbox(x), Online, tab[x].sure, tab[x].onlineUserIds)
        /\ \A h \in Gets : get[h].pc = "answered" /\ get[h].tab = x =>
             Vouches(Inbox(x), Online, get[h].valid, get[h].seen)
    BY <2>1, <1>1 DEF Truth
  <2>3. CASE x # t
    <3>1. Inbox(x)' = Inbox(x)
      BY <2>1, <2>3, <1>5, <1>7, <1>10 DEF Inbox, Listening
    <3> QED
      BY <2>2, <2>3, <3>1, <1>7, <1>8, <1>11
  <2>4. CASE x = t
    <3>1. Inbox(t) = q /\ Inbox(t)' = Tail(q)
      BY <1>2, <1>5, <1>7 DEF Inbox
    <3>2. PICK O : O = Online
      OBVIOUS
    <3>3. PICK W : W = tab[t].onlineUserIds
      OBVIOUS
    <3>4. /\ Agrees(Tail(q), O)
          /\ \A K : Vouches(q, O, K, W) =>
               Vouches(Tail(q), O, K \cup {u}, V)
          /\ \A K, A : Vouches(q, O, K, A) =>
               Vouches(Tail(q), O, K \ {u}, A)
      <4>1. Agrees(q, O)
        BY <2>2, <2>4, <3>1, <3>2
      <4>2. V = IF Head(q).online THEN W \cup {Head(q).user}
                                  ELSE W \ {Head(q).user}
        BY <1>2, <3>3
      <4> QED
        BY <4>1, <4>2, <1>2, <1>4, Hearing
    <3>5. Vouches(Tail(q), O, tab[t].sure \cup {u}, V)
      BY <2>2, <2>4, <3>1, <3>2, <3>3, <3>4
    <3>6. ASSUME NEW h \in Gets, get'[h].pc = "answered", get'[h].tab = t
          PROVE  Vouches(Tail(q), O, get'[h].valid, get'[h].seen)
      <4>1. Vouches(q, O, get[h].valid, get[h].seen)
        BY <2>2, <2>4, <3>1, <3>2, <3>6, <1>8
      <4>2. get'[h].valid = get[h].valid \ {u} /\ get'[h].seen = get[h].seen
        BY <3>6, <1>8
      <4> QED
        BY <4>1, <4>2, <3>4
    <3> QED
      BY <2>4, <3>1, <3>2, <3>4, <3>5, <3>6, <1>7, <1>11
  <2> QED
    BY <2>3, <2>4
<1> QED
  BY <1>12, <1>13, <1>14, <1>15, <1>16 DEF IInv

\* IInv is inductive.
LEMMA NextInvariant == IInv /\ [Next]_vars => IInv'
<1> SUFFICES ASSUME IInv, [Next]_vars PROVE IInv'
  OBVIOUS
<1>1. ASSUME NEW s \in Sockets, Admit(s) PROVE IInv'
  BY <1>1, AdmitStep
<1>2. ASSUME NEW s \in Sockets, Reject(s) PROVE IInv'
  BY <1>2, RejectStep
<1>3. ASSUME NEW s \in Sockets, Disconnect(s) PROVE IInv'
  BY <1>3, DisconnectStep
<1>4. ASSUME NEW g \in Gets, Answer(g) PROVE IInv'
  BY <1>4, AnswerStep
<1>5. ASSUME NEW g \in Gets, Apply(g) PROVE IInv'
  BY <1>5, ApplyStep
<1>6. ASSUME NEW g \in Gets, LoseGet(g) PROVE IInv'
  BY <1>6, LoseGetStep
<1>7. ASSUME NEW t \in Tabs, Unmount(t) PROVE IInv'
  BY <1>7, UnmountStep
<1>8. ASSUME NEW t \in Tabs, Deliver(t) PROVE IInv'
  BY <1>8, DeliverStep
<1>9. ASSUME NEW t \in Tabs, NEW s \in Sockets, Reconnect(t, s) PROVE IInv'
  BY <1>9, ReconnectStep
<1>10. ASSUME NEW t \in Tabs, NEW s \in Sockets, NEW g \in Gets,
              Mount(t, s, g)
       PROVE  IInv'
  BY <1>10, MountStep
<1>11. CASE UNCHANGED vars
  BY <1>11 DEF vars, IInv, Typed, Linked, Quiet, Waiting, CountsMatch, Admitted, Count,
               Owner, Truth, Listening, Inbox, Online
<1> QED
  BY <1>1, <1>2, <1>3, <1>4, <1>5, <1>6, <1>7, <1>8, <1>9, <1>10, <1>11 DEF Next

-----------------------------------------------------------------------------
(* Results *)

\* The invariant holds in every reachable state, whatever order connections,
\* verifications, closings, snapshots and events take.
THEOREM Invariance == Spec => []IInv
BY InitInvariant, NextInvariant, PTL DEF Spec

\* Every count in the presence map is positive and at most the number of
\* connections: trackPresence keeps no entry of zero and never goes below.
THEOREM TypeCorrect == Spec => []TypeOK
<1>1. ASSUME IInv PROVE TypeOK
  <2>1. Typed /\ CountsMatch
    BY <1>1 DEF IInv
  <2>2. ASSUME NEW u \in Online
        PROVE  presence[u] \in 1..Cardinality(Sockets)
    <3>1. u \in Users /\ presence[u] \in Nat \ {0}
      BY <2>1 DEF Typed
    <3>2. presence[u] = Cardinality(Admitted(u))
      BY <2>1, <3>1 DEF CountsMatch, Count, Admitted
    <3> QED
      BY <3>1, <3>2, AdmittedFinite
  <2> QED
    BY <2>1, <2>2 DEF Typed, TypeOK
<1> QED
  BY <1>1, Invariance, PTL

\* However many tabs a user has and in whatever order they come, close or fail
\* to be verified, the gateway never counts fewer than the user's open sockets;
\* it counts just those unless one was admitted after it had closed; and nobody
\* is listed with a count of zero.
THEOREM NobodyCountedOut == Spec => []NobodyIsCountedOut
<1>1. ASSUME IInv PROVE NobodyIsCountedOut
  <2>1. Typed /\ CountsMatch
    BY <1>1 DEF IInv
  <2>2. ASSUME NEW u \in Users
        PROVE  /\ Count(u) >= Cardinality(Active(u))
               /\ Admitted(u) = Active(u) => Count(u) = Cardinality(Active(u))
               /\ u \in Online => Count(u) > 0
    <3>1. Count(u) = Cardinality(Admitted(u))
      BY <2>1 DEF CountsMatch
    <3>2. /\ Cardinality(Active(u)) <= Cardinality(Admitted(u))
          /\ Cardinality(Active(u)) \in Nat /\ Cardinality(Admitted(u)) \in Nat
      <4>1. Active(u) \subseteq Admitted(u) /\ IsFiniteSet(Admitted(u))
        BY AdmittedFinite DEF Active
      <4> QED
        BY <4>1, FS_Subset, FS_CardinalityType
    <3>3. u \in Online => Count(u) > 0
      BY <2>1 DEF Typed, Count
    <3> QED
      BY <3>1, <3>2, <3>3
  <2> QED
    BY <2>2 DEF NobodyIsCountedOut
<1> QED
  BY <1>1, Invariance, PTL

\* presence:update events and a snapshot that overtakes them leave a tab that
\* has heard all it was sent with what the gateway holds, about every user it
\* has reason to be sure of.
THEOREM ShownTrue == Spec => []ShownIsTrue
<1>1. ASSUME IInv PROVE ShownIsTrue
  <2> SUFFICES ASSUME NEW t \in Tabs, Listening(t), Inbox(t) = <<>>,
                      NEW u \in tab[t].sure
               PROVE  u \in tab[t].onlineUserIds <=> u \in Online
    BY DEF ShownIsTrue, Listening, Inbox
  <2>1. Vouches(Inbox(t), Online, tab[t].sure, tab[t].onlineUserIds)
    BY <1>1 DEF IInv, Truth
  <2>2. Silent(Inbox(t), u)
    BY DEF Silent
  <2>3. u \in Users
    BY <1>1 DEF IInv, Typed, Tab
  <2> QED
    BY <2>1, <2>2, <2>3 DEF Vouches
<1> QED
  BY <1>1, Invariance, PTL

-----------------------------------------------------------------------------
(* WebApp: what its tables hold *)

LEMMA KeysOf ==
  /\ DOMAIN UseTickets.keys = {"list", "palette", "ticket", "history"}
  /\ DOMAIN UseSla.keys = {"slaDashboard", "slaViolations", "businessHours", "policies"}
  /\ DOMAIN UseKnowledgeBase.keys = {"articles", "article"}
  /\ DOMAIN UseNotifications.keys = {"notifications"}
  /\ DOMAIN UseMacros.keys = {"macros"}
  /\ DOMAIN UseTags.keys = {"tags"}
  /\ DOMAIN UseSavedFilters.keys = {"savedFilters"}
  /\ DOMAIN UseTeam.keys = {"team"}
  /\ DOMAIN UseAgents.keys = {"agents"}
  /\ DOMAIN UseSessions.keys = {"sessions"}
  /\ DOMAIN UseApiKeys.keys = {"apiKeys"}
  /\ DOMAIN UseWebhooks.keys = {"webhooks"}
  /\ DOMAIN UseOrganization.keys = {"organization"}
  /\ DOMAIN UseCurrentUser.keys = {"me"}
  /\ DOMAIN UseProfile.keys = {}
  /\ DOMAIN UseAnalytics.keys = {"analytics"}
  /\ DOMAIN UseAuditLogs.keys = {"auditLogs"}
  /\ DOMAIN UseHealth.keys = {"health"}
  BY DEF UseTickets, UseSla, UseKnowledgeBase, UseNotifications, UseMacros, UseTags,
         UseSavedFilters, UseTeam, UseAgents, UseSessions, UseApiKeys, UseWebhooks,
         UseOrganization, UseCurrentUser, UseProfile, UseAnalytics, UseAuditLogs,
         UseHealth, Hook, Each, TicketKeys


LEMMA OneHook ==
  ASSUME NEW g \in Hooks, NEW h \in Hooks, NEW q \in DOMAIN g.keys, q \in DOMAIN h.keys
  PROVE  g = h
  BY KeysOf DEF Hooks

LEMMA KeyIs ==
  ASSUME NEW hook \in Hooks, NEW q \in DOMAIN hook.keys
  PROVE  q \in Queries /\ Key[q] = hook.keys[q]
  BY OneHook DEF Queries, Key

Begins(key, root) == 1 <= Len(key) /\ key[1] = root

LEMMA Beginnings ==
  ASSUME NEW a, NEW b, NEW c
  PROVE  Begins(<<a>>, a) /\ Begins(<<a, b>>, a) /\ Begins(<<a, b, c>>, a)
  BY DEF Begins

LEMMA RootMatches ==
  ASSUME NEW q, NEW root, Begins(Key[q], root)
  PROVE  Matches(<<root>>, q)
<1>1. /\ SubSeq(Key[q], 1, 1) \in Seq({root}) /\ Len(SubSeq(Key[q], 1, 1)) = 1
      /\ SubSeq(Key[q], 1, 1)[1] = root
  <2>1. \A i \in 1..1 : Key[q][i] \in {root}
    BY DEF Begins
  <2>2. /\ SubSeq(Key[q], 1, 1) \in Seq({root})
        /\ Len(SubSeq(Key[q], 1, 1)) = IF 1 <= 1 THEN 1 - 1 + 1 ELSE 0
        /\ \A i \in 1..(1 - 1 + 1) : SubSeq(Key[q], 1, 1)[i] = Key[q][1 + i - 1]
    BY <2>1, SubSeqProperties
  <2> QED
    BY <2>2 DEF Begins
<1>2. SubSeq(Key[q], 1, 1) = <<root>>
  <2>1. <<root>> \in Seq({root}) /\ Len(<<root>>) = 1 /\ <<root>>[1] = root
    OBVIOUS
  <2>2. ASSUME NEW i \in 1..Len(SubSeq(Key[q], 1, 1))
        PROVE  SubSeq(Key[q], 1, 1)[i] = <<root>>[i]
    BY <1>1, <2>1
  <2> QED
    BY <1>1, <2>1, <2>2, SeqEqual, Zenon
<1> QED
  BY <1>2 DEF Begins, Matches

\* invalidateQueries with the root of a query's key reaches the query.
LEMMA TicketKeysMatch ==
  ASSUME NEW q \in {"list", "palette", "ticket", "history"}
  PROVE  q \in Queries /\ Matches(<<"tickets">>, q)
<1>1. q \in DOMAIN UseTickets.keys /\ Begins(UseTickets.keys[q], "tickets")
  BY KeysOf DEF UseTickets, Hook, TicketKeys, Begins
<1> QED
  BY <1>1, KeyIs, RootMatches DEF Hooks

LEMMA SlaKeysMatch ==
  ASSUME NEW q \in {"slaDashboard", "slaViolations", "businessHours"}
  PROVE  q \in Queries /\ Matches(<<"sla">>, q)
<1>1. q \in DOMAIN UseSla.keys /\ Begins(UseSla.keys[q], "sla")
  BY KeysOf DEF UseSla, Hook, Begins
<1> QED
  BY <1>1, KeyIs, RootMatches DEF Hooks

LEMMA ArticleKeysMatch ==
  ASSUME NEW q \in {"articles", "article"}
  PROVE  q \in Queries /\ Matches(<<"knowledge-base">>, q)
<1>1. q \in DOMAIN UseKnowledgeBase.keys
      /\ Begins(UseKnowledgeBase.keys[q], "knowledge-base")
  BY KeysOf DEF UseKnowledgeBase, Hook, Begins
<1> QED
  BY <1>1, KeyIs, RootMatches DEF Hooks

LEMMA OtherKeysMatch ==
  /\ Matches(<<"notifications">>, "notifications") /\ Matches(<<"macros">>, "macros")
  /\ Matches(<<"tags">>, "tags") /\ Matches(<<"saved-filters">>, "savedFilters")
  /\ Matches(<<"team">>, "team") /\ Matches(<<"sessions">>, "sessions")
  /\ Matches(<<"api-keys">>, "apiKeys") /\ Matches(<<"webhooks">>, "webhooks")
  /\ Matches(<<"organization">>, "organization") /\ Matches(<<"me">>, "me")
<1>1. /\ Key["notifications"] = <<"notifications">> /\ Key["macros"] = <<"macros">>
      /\ Key["tags"] = <<"tags">>
  BY KeysOf, KeyIs DEF Hooks, UseNotifications, UseMacros, UseTags, Hook
<1>2. /\ Key["savedFilters"] = <<"saved-filters">> /\ Key["team"] = <<"team">>
      /\ Key["sessions"] = <<"sessions">> /\ Key["apiKeys"] = <<"api-keys">>
  BY KeysOf, KeyIs DEF Hooks, UseSavedFilters, UseTeam, UseSessions, UseApiKeys, Hook
<1>3. /\ Key["webhooks"] = <<"webhooks">> /\ Key["organization"] = <<"organization">>
      /\ Key["me"] = <<"me">>
  BY KeysOf, KeyIs DEF Hooks, UseWebhooks, UseOrganization, UseCurrentUser, Hook
<1> QED
  BY <1>1, <1>2, <1>3, RootMatches DEF Begins

LEMMA PoliciesKeyMatches == Matches(<<"sla", "policies">>, "policies")
<1> DEFINE k == <<"sla", "policies">>
<1>1. Key["policies"] = k
  BY KeysOf, KeyIs DEF Hooks, UseSla, Hook
<1>2. k \in Seq({"sla", "policies"}) /\ Len(k) = 2
  OBVIOUS
<1>3. k[1] \in {"sla", "policies"} /\ k[2] \in {"sla", "policies"}
  OBVIOUS
<1> HIDE DEF k
<1>4. /\ SubSeq(k, 1, 2) \in Seq({"sla", "policies"}) /\ Len(SubSeq(k, 1, 2)) = 2
      /\ \A i \in 1..2 : SubSeq(k, 1, 2)[i] = k[i]
  <2>1. /\ SubSeq(k, 1, 2) \in Seq({"sla", "policies"})
        /\ Len(SubSeq(k, 1, 2)) = IF 1 <= 2 THEN 2 - 1 + 1 ELSE 0
        /\ \A i \in 1..(2 - 1 + 1) : SubSeq(k, 1, 2)[i] = k[1 + i - 1]
    BY <1>3, SubSeqProperties
  <2> QED
    BY <2>1
<1>5. SubSeq(k, 1, 2) = k
  BY <1>2, <1>4, SeqEqual
<1> QED
  BY <1>1, <1>2, <1>5 DEF Matches, k

LEMMA DropsOf ==
  /\ DOMAIN UseTickets.drops = OfTickets
  /\ DOMAIN UseSla.drops = {"createPolicy", "updatePolicy"}
  /\ DOMAIN UseKnowledgeBase.drops = {"createArticle", "updateArticle", "deleteArticle"}
  /\ DOMAIN UseNotifications.drops = {"markRead", "markAllRead"}
  /\ DOMAIN UseMacros.drops = {"createMacro", "deleteMacro"}
  /\ DOMAIN UseTags.drops = {"createTag"}
  /\ DOMAIN UseSavedFilters.drops = {"createFilter", "deleteFilter"}
  /\ DOMAIN UseTeam.drops = {"invite", "updateMember"}
  /\ DOMAIN UseAgents.drops = {}
  /\ DOMAIN UseSessions.drops = {"revokeSession", "logoutOthers"}
  /\ DOMAIN UseApiKeys.drops = {"createKey", "deleteKey"}
  /\ DOMAIN UseWebhooks.drops = {"createWebhook", "deleteWebhook"}
  /\ DOMAIN UseOrganization.drops = {"updateOrganization"}
  /\ DOMAIN UseCurrentUser.drops = {}
  /\ DOMAIN UseProfile.drops = {"updateProfile", "uploadAvatar"}
  /\ DOMAIN UseAnalytics.drops = {}
  /\ DOMAIN UseAuditLogs.drops = {}
  /\ DOMAIN UseHealth.drops = {}
  BY DEF UseTickets, UseSla, UseKnowledgeBase, UseNotifications, UseMacros, UseTags,
         UseSavedFilters, UseTeam, UseAgents, UseSessions, UseApiKeys, UseWebhooks,
         UseOrganization, UseCurrentUser, UseProfile, UseAnalytics, UseAuditLogs,
         UseHealth, Hook, Each

LEMMA OneHookDrops ==
  ASSUME NEW g \in Hooks, NEW h \in Hooks, NEW m \in DOMAIN g.drops, m \in DOMAIN h.drops
  PROVE  g = h
  BY DropsOf DEF Hooks, OfTickets, OnTicket, Watching

LEMMA DropsAre ==
  ASSUME NEW hook \in Hooks, NEW m \in DOMAIN hook.drops
  PROVE  m \in Mutation /\ Drops[m] = hook.drops[m]
  BY OneHookDrops DEF Mutation, Drops

\* What a mutation's hook declares stale, as far as it matters below.
LEMMA RootsAreDropped ==
  /\ \A m \in OfTickets : <<"tickets">> \in Drops[m]
  /\ \A m \in {"createPolicy", "updatePolicy"} : <<"sla", "policies">> \in Drops[m]
  /\ \A m \in {"createArticle", "updateArticle", "deleteArticle"} :
       <<"knowledge-base">> \in Drops[m]
  /\ \A m \in {"markRead", "markAllRead"} : <<"notifications">> \in Drops[m]
  /\ \A m \in {"createMacro", "deleteMacro"} : <<"macros">> \in Drops[m]
  /\ <<"tags">> \in Drops["createTag"]
  /\ \A m \in {"createFilter", "deleteFilter"} : <<"saved-filters">> \in Drops[m]
  /\ \A m \in {"invite", "updateMember"} : <<"team">> \in Drops[m]
  /\ \A m \in {"revokeSession", "logoutOthers"} : <<"sessions">> \in Drops[m]
  /\ \A m \in {"createKey", "deleteKey"} : <<"api-keys">> \in Drops[m]
  /\ \A m \in {"createWebhook", "deleteWebhook"} : <<"webhooks">> \in Drops[m]
  /\ {<<"organization">>, <<"me">>} \subseteq Drops["updateOrganization"]
<1>1. \A m \in OfTickets : <<"tickets">> \in Drops[m]
  <2> SUFFICES ASSUME NEW m \in OfTickets PROVE <<"tickets">> \in Drops[m]
    OBVIOUS
  <2>1. Drops[m] = UseTickets.drops[m]
    BY DropsOf, DropsAre DEF Hooks
  <2>2. UseTickets.drops[m] = TicketDrops(m)
    BY DEF UseTickets, Hook
  <2> QED
    BY <2>1, <2>2 DEF TicketDrops, UseInvalidateTicket
<1>2. \A m \in {"createPolicy", "updatePolicy"} : <<"sla", "policies">> \in Drops[m]
  BY DropsOf, DropsAre DEF Hooks, UseSla, Hook, Each
<1>3. \A m \in {"createArticle", "updateArticle", "deleteArticle"} :
        <<"knowledge-base">> \in Drops[m]
  <2> SUFFICES ASSUME NEW m \in {"createArticle", "updateArticle", "deleteArticle"}
               PROVE  <<"knowledge-base">> \in Drops[m]
    OBVIOUS
  <2>1. Drops[m] = UseKnowledgeBase.drops[m]
    BY DropsOf, DropsAre DEF Hooks
  <2>2. <<"knowledge-base">> \in UseKnowledgeBase.drops[m]
    BY DEF UseKnowledgeBase, Hook
  <2> QED
    BY <2>1, <2>2
<1>4. /\ \A m \in {"markRead", "markAllRead"} : <<"notifications">> \in Drops[m]
      /\ \A m \in {"createMacro", "deleteMacro"} : <<"macros">> \in Drops[m]
      /\ <<"tags">> \in Drops["createTag"]
  BY DropsOf, DropsAre DEF Hooks, UseNotifications, UseMacros, UseTags, Hook, Each
<1>5. /\ \A m \in {"createFilter", "deleteFilter"} : <<"saved-filters">> \in Drops[m]
      /\ \A m \in {"invite", "updateMember"} : <<"team">> \in Drops[m]
      /\ \A m \in {"revokeSession", "logoutOthers"} : <<"sessions">> \in Drops[m]
  BY DropsOf, DropsAre DEF Hooks, UseSavedFilters, UseTeam, UseSessions, Hook, Each
<1>6. /\ \A m \in {"createKey", "deleteKey"} : <<"api-keys">> \in Drops[m]
      /\ \A m \in {"createWebhook", "deleteWebhook"} : <<"webhooks">> \in Drops[m]
  BY DropsOf, DropsAre DEF Hooks, UseApiKeys, UseWebhooks, Hook, Each
<1>7. {<<"organization">>, <<"me">>} \subseteq Drops["updateOrganization"]
  BY DropsOf, DropsAre DEF Hooks, UseOrganization, Hook, Each
<1> QED
  BY <1>1, <1>2, <1>3, <1>4, <1>5, <1>6, <1>7

LEMMA AnswersOf ==
  /\ DOMAIN TicketsController.answers = {"list", "palette", "ticket", "history"}
  /\ DOMAIN TagsController.answers = {"tags"}
  /\ DOMAIN SlaDashboardController.answers = {"slaDashboard", "slaViolations"}
  /\ DOMAIN SlaPoliciesController.answers = {"policies"}
  /\ DOMAIN BusinessHoursController.answers = {"businessHours"}
  /\ DOMAIN KnowledgeBaseController.answers = {"articles", "article"}
  /\ DOMAIN NotificationsController.answers = {"notifications"}
  /\ DOMAIN MacrosController.answers = {"macros"}
  /\ DOMAIN SavedFiltersController.answers = {"savedFilters"}
  /\ DOMAIN UsersController.answers = {"me", "team", "agents"}
  /\ DOMAIN AuthController.answers = {"sessions"}
  /\ DOMAIN ApiKeysController.answers = {"apiKeys"}
  /\ DOMAIN WebhooksController.answers = {"webhooks"}
  /\ DOMAIN OrganizationController.answers = {"organization"}
  /\ DOMAIN AnalyticsController.answers = {"analytics"}
  /\ DOMAIN AuditController.answers = {"auditLogs"}
  /\ DOMAIN HealthController.answers = {"health"}
  /\ DOMAIN Jobs.answers = {}
  BY DEF TicketsController, TagsController, SlaDashboardController,
         SlaPoliciesController, BusinessHoursController, KnowledgeBaseController,
         NotificationsController, MacrosController, SavedFiltersController,
         UsersController, AuthController, ApiKeysController, WebhooksController,
         OrganizationController, AnalyticsController, AuditController,
         HealthController, Jobs, Api, Each, TicketKeys

LEMMA WritesOf ==
  /\ DOMAIN TicketsController.writes = OfTickets
  /\ DOMAIN TagsController.writes = {"createTag"}
  /\ DOMAIN SlaDashboardController.writes = {}
  /\ DOMAIN SlaPoliciesController.writes = {"createPolicy", "updatePolicy"}
  /\ DOMAIN BusinessHoursController.writes = {}
  /\ DOMAIN KnowledgeBaseController.writes
       = {"createArticle", "updateArticle", "deleteArticle"}
  /\ DOMAIN NotificationsController.writes = {"markRead", "markAllRead"}
  /\ DOMAIN MacrosController.writes = {"createMacro", "deleteMacro"}
  /\ DOMAIN SavedFiltersController.writes = {"createFilter", "deleteFilter"}
  /\ DOMAIN UsersController.writes
       = {"invite", "updateMember", "updateProfile", "uploadAvatar"}
  /\ DOMAIN AuthController.writes = {"revokeSession", "logoutOthers"}
  /\ DOMAIN ApiKeysController.writes = {"createKey", "deleteKey"}
  /\ DOMAIN WebhooksController.writes = {"createWebhook", "deleteWebhook"}
  /\ DOMAIN OrganizationController.writes = {"updateOrganization"}
  /\ DOMAIN AnalyticsController.writes = {}
  /\ DOMAIN AuditController.writes = {}
  /\ DOMAIN HealthController.writes = {}
  /\ DOMAIN Jobs.writes = {"sweep", "enrich"}
<1>1. DOMAIN KnowledgeBaseController.writes
        = {"createArticle", "updateArticle", "deleteArticle"}
  BY DropsOf DEF KnowledgeBaseController, Api
<1> QED
  BY <1>1 DEF TicketsController, TagsController, SlaDashboardController,
         SlaPoliciesController, BusinessHoursController,
         NotificationsController, MacrosController, SavedFiltersController,
         UsersController, AuthController, ApiKeysController, WebhooksController,
         OrganizationController, AnalyticsController, AuditController,
         HealthController, Jobs, Api, Each

LEMMA OneApi ==
  ASSUME NEW g \in Apis, NEW h \in Apis
  PROVE  /\ \A q \in DOMAIN g.answers : q \in DOMAIN h.answers => g = h
         /\ \A m \in DOMAIN g.writes : m \in DOMAIN h.writes => g = h
<1>1. \A q \in DOMAIN g.answers : q \in DOMAIN h.answers => g = h
  BY AnswersOf DEF Apis
<1>2. \A m \in DOMAIN g.writes : m \in DOMAIN h.writes => g = h
  BY WritesOf DEF Apis, OfTickets, OnTicket, Watching
<1> QED
  BY <1>1, <1>2

\* Every query and every mutation has a controller.
LEMMA EachHasAnApi ==
  /\ \A q \in Queries : \E api \in Apis : q \in DOMAIN api.answers
  /\ \A m \in Mutation : \E api \in Apis : m \in DOMAIN api.writes
<1>1. \A q \in Queries : \E api \in Apis : q \in DOMAIN api.answers
  BY KeysOf, AnswersOf DEF Queries, Hooks, Apis
<1>2. \A m \in Mutation : \E api \in Apis : m \in DOMAIN api.writes
  BY DropsOf, WritesOf DEF Mutation, Hooks, Apis
<1> QED
  BY <1>1, <1>2

LEMMA AnsweredBy ==
  ASSUME NEW api \in Apis, NEW q \in DOMAIN api.answers, q \in Queries
  PROVE  Answered[q] = api.answers[q]
  BY OneApi DEF Answered

LEMMA WrittenBy ==
  ASSUME NEW api \in Apis, NEW m \in DOMAIN api.writes, m \in DOMAIN Writes
  PROVE  Writes[m] = api.writes[m]
  BY OneApi DEF Writes

LEMMA AnswersAre ==
  /\ \A q \in {"list", "palette", "ticket", "history", "tags", "articles", "article",
               "notifications", "savedFilters", "me", "sessions", "organization",
               "health"} : Answered[q] = Role
  /\ \A q \in {"macros", "agents"} : Answered[q] = Staff
  /\ \A q \in {"team", "policies", "businessHours", "webhooks"} : Answered[q] = Managers
  /\ \A q \in {"slaDashboard", "slaViolations", "analytics"} : Answered[q] = Seniors
  /\ \A q \in {"apiKeys", "auditLogs"} : Answered[q] = {"ADMIN"}
<1>1. {"list", "palette", "ticket", "history", "tags", "articles", "article",
       "notifications", "savedFilters", "me", "sessions", "organization", "health",
       "macros", "agents", "team", "policies", "businessHours", "webhooks",
       "slaDashboard", "slaViolations", "analytics", "apiKeys", "auditLogs"}
        \subseteq Queries
  BY KeysOf DEF Queries, Hooks
<1>2. \A q \in {"list", "palette", "ticket", "history", "tags"} : Answered[q] = Role
  BY <1>1, AnswersOf, AnsweredBy
     DEF Apis, TicketsController, TagsController, Api, Each, TicketKeys
<1>3. \A q \in {"articles", "article", "notifications", "savedFilters", "health"} :
        Answered[q] = Role
  BY <1>1, AnswersOf, AnsweredBy
     DEF Apis, KnowledgeBaseController, NotificationsController,
         SavedFiltersController, HealthController, Api, Each
<1>4. \A q \in {"sessions", "organization"} : Answered[q] = Role
  BY <1>1, AnswersOf, AnsweredBy
     DEF Apis, AuthController, OrganizationController, Api, Each
<1>5. /\ Answered["me"] = Role /\ Answered["team"] = Managers
      /\ Answered["agents"] = Staff /\ Answered["macros"] = Staff
  BY <1>1, AnswersOf, AnsweredBy DEF Apis, UsersController, MacrosController, Api
<1>6. \A q \in {"policies", "businessHours", "webhooks"} : Answered[q] = Managers
  BY <1>1, AnswersOf, AnsweredBy
     DEF Apis, SlaPoliciesController, BusinessHoursController, WebhooksController, Api
<1>7. \A q \in {"slaDashboard", "slaViolations", "analytics"} : Answered[q] = Seniors
  BY <1>1, AnswersOf, AnsweredBy
     DEF Apis, SlaDashboardController, AnalyticsController, Api, Each
<1>8. \A q \in {"apiKeys", "auditLogs"} : Answered[q] = {"ADMIN"}
  BY <1>1, AnswersOf, AnsweredBy DEF Apis, ApiKeysController, AuditController, Api
<1> QED
  BY <1>2, <1>3, <1>4, <1>5, <1>6, <1>7, <1>8

LEMMA WritesHave ==
  /\ OfTickets \subseteq DOMAIN Writes
  /\ {"markRead", "markAllRead", "createFilter", "deleteFilter", "updateProfile",
      "uploadAvatar", "revokeSession", "logoutOthers", "createTag", "createMacro",
      "deleteMacro", "createArticle", "updateArticle", "deleteArticle",
      "createPolicy", "updatePolicy", "invite", "updateMember", "createWebhook",
      "deleteWebhook", "createKey", "deleteKey", "updateOrganization"}
       \subseteq DOMAIN Writes
  BY DropsOf DEF Writes, Mutation, Hooks

\* No other mutations are there.
LEMMA MutationsAre ==
  ASSUME NEW m \in DOMAIN Writes
  PROVE  \/ m \in OfTickets
         \/ m \in {"markRead", "markAllRead", "createFilter", "deleteFilter",
                  "updateProfile", "uploadAvatar", "revokeSession", "logoutOthers",
                  "createTag", "createMacro", "deleteMacro", "createArticle",
                  "updateArticle", "deleteArticle", "createPolicy", "updatePolicy",
                  "invite", "updateMember", "createWebhook", "deleteWebhook",
                  "createKey", "deleteKey", "updateOrganization"}
         \/ m \in {"sweep", "enrich"}
  BY DropsOf, WritesOf DEF Writes, Mutation, Hooks

LEMMA GrantsAre ==
  /\ \A m \in OfTickets : Writes[m].grants = TicketGrants(m)
  /\ \A m \in {"markRead", "markAllRead", "createFilter", "deleteFilter",
               "updateProfile", "uploadAvatar", "revokeSession", "logoutOthers"} :
       Writes[m].grants = Role
  /\ \A m \in {"createTag", "createMacro", "deleteMacro", "createArticle",
               "updateArticle", "deleteArticle"} : Writes[m].grants = Staff
  /\ \A m \in {"createPolicy", "updatePolicy", "invite", "updateMember",
               "createWebhook", "deleteWebhook"} : Writes[m].grants = Managers
  /\ \A m \in {"createKey", "deleteKey", "updateOrganization"} :
       Writes[m].grants = {"ADMIN"}
<1>2. \A m \in OfTickets : Writes[m].grants = TicketGrants(m)
  BY WritesHave, WritesOf, WrittenBy DEF Apis, TicketsController, Api, Write
<1>3. /\ \A m \in {"markRead", "markAllRead", "createFilter", "deleteFilter",
                   "revokeSession", "logoutOthers"} : Writes[m].grants = Role
      /\ \A m \in {"createTag", "createMacro", "deleteMacro"} :
           Writes[m].grants = Staff
  BY WritesHave, WritesOf, WrittenBy
     DEF Apis, NotificationsController, SavedFiltersController, AuthController,
         TagsController, MacrosController, Api, Each, Write
<1>4. \A m \in {"createArticle", "updateArticle", "deleteArticle"} :
        Writes[m].grants = Staff
  <2> SUFFICES ASSUME NEW m \in {"createArticle", "updateArticle", "deleteArticle"}
               PROVE  Writes[m].grants = Staff
    OBVIOUS
  <2>1. Writes[m] = KnowledgeBaseController.writes[m]
    BY WritesHave, WritesOf, WrittenBy DEF Apis
  <2>2. KnowledgeBaseController.writes[m].grants = Staff
    BY DropsOf DEF KnowledgeBaseController, Api, Write
  <2> QED
    BY <2>1, <2>2
<1>5. /\ \A m \in {"updateProfile", "uploadAvatar"} : Writes[m].grants = Role
      /\ \A m \in {"invite", "updateMember"} : Writes[m].grants = Managers
  BY WritesHave, WritesOf, WrittenBy DEF Apis, UsersController, Api, Write
<1>6. /\ \A m \in {"createPolicy", "updatePolicy", "createWebhook", "deleteWebhook"} :
           Writes[m].grants = Managers
      /\ \A m \in {"createKey", "deleteKey", "updateOrganization"} :
           Writes[m].grants = {"ADMIN"}
  BY WritesHave, WritesOf, WrittenBy
     DEF Apis, SlaPoliciesController, WebhooksController, ApiKeysController,
         OrganizationController, Api, Each, Write
<1> QED
  BY <1>2, <1>3, <1>4, <1>5, <1>6

LEMMA ChangesAre ==
  /\ \A m \in OfTickets : Writes[m].changes = TicketChanges(m)
  /\ \A m \in {"markRead", "markAllRead"} : Writes[m].changes = {"notifications"}
  /\ \A m \in {"createFilter", "deleteFilter"} : Writes[m].changes = {"savedFilters"}
  /\ \A m \in {"updateProfile", "uploadAvatar"} :
       Writes[m].changes = {"me", "team", "agents"}
  /\ \A m \in {"revokeSession", "logoutOthers"} : Writes[m].changes = {"sessions"}
  /\ Writes["createTag"].changes = {"tags"}
  /\ \A m \in {"createMacro", "deleteMacro"} : Writes[m].changes = {"macros"}
  /\ \A m \in {"createArticle", "updateArticle", "deleteArticle"} :
       Writes[m].changes \subseteq {"articles", "article"}
  /\ \A m \in {"createPolicy", "updatePolicy"} : Writes[m].changes = {"policies"}
  /\ Writes["invite"].changes = {"team", "auditLogs"}
  /\ Writes["updateMember"].changes = {"team", "agents", "auditLogs"}
  /\ \A m \in {"createWebhook", "deleteWebhook"} : Writes[m].changes = {"webhooks"}
  /\ \A m \in {"createKey", "deleteKey"} : Writes[m].changes = {"apiKeys"}
  /\ Writes["updateOrganization"].changes = {"organization", "me"}
  /\ \A m \in {"sweep", "enrich"} :
       Writes[m].changes = Lists \cup {"ticket", "history"}
<1>1. \A m \in OfTickets : Writes[m].changes = TicketChanges(m)
  BY WritesHave, WritesOf, WrittenBy DEF Apis, TicketsController, Api, Write
<1>2. /\ \A m \in {"markRead", "markAllRead"} : Writes[m].changes = {"notifications"}
      /\ \A m \in {"createFilter", "deleteFilter"} :
           Writes[m].changes = {"savedFilters"}
      /\ \A m \in {"revokeSession", "logoutOthers"} : Writes[m].changes = {"sessions"}
  BY WritesHave, WritesOf, WrittenBy
     DEF Apis, NotificationsController, SavedFiltersController, AuthController,
         Api, Each, Write
<1>3. /\ Writes["createTag"].changes = {"tags"}
      /\ \A m \in {"createMacro", "deleteMacro"} : Writes[m].changes = {"macros"}
      /\ \A m \in {"createPolicy", "updatePolicy"} : Writes[m].changes = {"policies"}
  BY WritesHave, WritesOf, WrittenBy
     DEF Apis, TagsController, MacrosController, SlaPoliciesController, Api, Each, Write
<1>4. \A m \in {"createArticle", "updateArticle", "deleteArticle"} :
        Writes[m].changes \subseteq {"articles", "article"}
  <2> SUFFICES ASSUME NEW m \in {"createArticle", "updateArticle", "deleteArticle"}
               PROVE  Writes[m].changes \subseteq {"articles", "article"}
    OBVIOUS
  <2>1. Writes[m] = KnowledgeBaseController.writes[m]
    BY WritesHave, WritesOf, WrittenBy DEF Apis
  <2>2. KnowledgeBaseController.writes[m].changes
          = {"articles"} \cup If(m = "updateArticle", {"article"})
    BY DropsOf DEF KnowledgeBaseController, Api, Write
  <2> QED
    BY <2>1, <2>2 DEF If
<1>5. /\ \A m \in {"updateProfile", "uploadAvatar"} :
           Writes[m].changes = {"me", "team", "agents"}
      /\ Writes["invite"].changes = {"team", "auditLogs"}
      /\ Writes["updateMember"].changes = {"team", "agents", "auditLogs"}
  BY WritesHave, WritesOf, WrittenBy DEF Apis, UsersController, Api, Write
<1>6. /\ \A m \in {"createWebhook", "deleteWebhook"} : Writes[m].changes = {"webhooks"}
      /\ \A m \in {"createKey", "deleteKey"} : Writes[m].changes = {"apiKeys"}
      /\ Writes["updateOrganization"].changes = {"organization", "me"}
  BY WritesHave, WritesOf, WrittenBy
     DEF Apis, WebhooksController, ApiKeysController, OrganizationController, Api,
         Each, Write
<1>7. \A m \in {"sweep", "enrich"} :
        Writes[m].changes = Lists \cup {"ticket", "history"}
  <2>1. {"sweep", "enrich"} \subseteq DOMAIN Writes
    BY WritesOf DEF Writes
  <2> QED
    BY <2>1, WritesOf, WrittenBy DEF Apis, Jobs, Api, Each, Write
<1> QED
  BY <1>1, <1>2, <1>3, <1>4, <1>5, <1>6, <1>7

-----------------------------------------------------------------------------
(* WebApp: its tables fit each other *)

\* The answer of m makes the tab load q anew, or is what q shows.
Dropped(m, q) == q \in Puts(m) \/ \E prefix \in Drops[m] : Matches(prefix, q)

\* An event of the gateway reaches q.
Reaches(e, q) == \E prefix \in Heard(e) : Matches(prefix, q)

\* Of what a mutation changes, its hook or an event tells the user's own tab,
\* save what is forgotten.
LEMMA OwnChangesShow ==
  ASSUME NEW m \in Mutation, NEW q \in Writes[m].changes, <<m, q>> \notin Forgotten
  PROVE  Dropped(m, q) \/ \E e \in Emits(m) : Reaches(e, q)
<1>1. CASE m \in OfTickets
  <2>1. q \in TicketChanges(m)
    BY <1>1, ChangesAre
  <2>2. CASE q \in {"list", "palette", "ticket", "history"}
    BY <1>1, <2>2, TicketKeysMatch, RootsAreDropped DEF Dropped
  <2>3. CASE q \in {"slaDashboard", "slaViolations"}
    <3>1. m \in OnTicket \/ m = "createTicket"
      BY <1>1, <2>1, <2>3 DEF TicketChanges, OfTickets
    <3>2. "ticket:updated" \in Emits(m) \/ "ticket:created" \in Emits(m)
      BY <3>1 DEF Emits, If
    <3>3. <<"sla">> \in Heard("ticket:updated") /\ <<"sla">> \in Heard("ticket:created")
      BY DEF Heard
    <3> QED
      BY <2>3, <3>2, <3>3, SlaKeysMatch DEF Reaches
  <2>4. CASE q = "analytics"
    BY <2>4 DEF Forgotten
  <2> QED
    BY <2>1, <2>2, <2>3, <2>4 DEF TicketChanges, Lists
<1>2. CASE m \in {"updateProfile", "uploadAvatar"}
  <2>1. q = "me"
    BY <1>2, ChangesAre DEF Forgotten
  <2> QED
    BY <1>2, <2>1, DropsOf DEF Dropped, Puts, If
<1>3. CASE m \in {"invite", "updateMember"}
  <2>1. q = "team"
    BY <1>3, ChangesAre DEF Forgotten
  <2> QED
    BY <1>3, <2>1, OtherKeysMatch, RootsAreDropped DEF Dropped
<1>4. CASE m \in {"createArticle", "updateArticle", "deleteArticle"}
  BY <1>4, ChangesAre, ArticleKeysMatch, RootsAreDropped DEF Dropped
<1>5. CASE m \in {"markRead", "markAllRead", "createFilter", "deleteFilter",
                  "revokeSession", "logoutOthers", "createTag", "createMacro",
                  "deleteMacro"}
  BY <1>5, ChangesAre, OtherKeysMatch, RootsAreDropped DEF Dropped
<1>6. CASE m \in {"createPolicy", "updatePolicy", "createWebhook", "deleteWebhook",
                  "createKey", "deleteKey", "updateOrganization"}
  BY <1>6, ChangesAre, OtherKeysMatch, PoliciesKeyMatches, RootsAreDropped DEF Dropped
<1> QED
  BY <1>1, <1>2, <1>3, <1>4, <1>5, <1>6, DropsOf DEF Mutation, Hooks

\* Of what others change of the live queries an event tells, unless they are
\* silent about it.
LEMMA OthersAreHeard ==
  ASSUME NEW m \in DOMAIN Writes, NEW q \in ChangesForOthers(m) \cap Live,
         m \notin Unannounced
  PROVE  \E e \in Emits(m) \cup If(m \in Notifying, {"notification:new"}) :
           Reaches(e, q)
<1>1. CASE q = "notifications"
  <2>1. m \in Notifying
    <3>1. m \in Notifying \/ q \in Writes[m].changes
      BY DEF ChangesForOthers, If
    <3>2. ~("notifications" \in TicketChanges(m))
      BY DEF TicketChanges, Lists
    <3> QED
      BY <1>1, <3>1, <3>2, MutationsAre, ChangesAre DEF Unannounced, Lists
  <2>2. <<"notifications">> \in Heard("notification:new")
    BY DEF Heard
  <2> QED
    BY <1>1, <2>1, <2>2, OtherKeysMatch DEF Reaches, If
<1>2. CASE q # "notifications"
  <2>1. q \in Writes[m].changes
    BY <1>2 DEF ChangesForOthers, If
  <2>2. m \in OnTicket \cup {"createTicket", "sweep", "enrich"}
    <3>1. CASE m \in OfTickets
      BY <3>1 DEF OfTickets, Unannounced
    <3>2. CASE m \notin OfTickets
      BY <1>2, <2>1, <3>2, MutationsAre, ChangesAre DEF Unannounced, Live
    <3> QED
      BY <3>1, <3>2
  <2>3. "ticket:updated" \in Emits(m) \/ "ticket:created" \in Emits(m)
    BY <2>2, WritesOf DEF Emits, If
  <2>4. /\ {<<"tickets">>, <<"sla">>} \subseteq Heard("ticket:updated")
        /\ {<<"tickets">>, <<"sla">>} \subseteq Heard("ticket:created")
    BY DEF Heard
  <2>5. Matches(<<"tickets">>, q) \/ Matches(<<"sla">>, q)
    BY <1>2, TicketKeysMatch, SlaKeysMatch DEF Live
  <2> QED
    BY <2>3, <2>4, <2>5 DEF Reaches
<1> QED
  BY <1>1, <1>2

LEMMA TicketDetailOffers ==
  ASSUME NEW r \in Role, NEW m \in TicketDetailPage(r).offers
  PROVE  \/ m \in {"updateSubject", "reopen", "addComment"} \cup Watching
         \/ r = "CUSTOMER" /\ m = "rateCsat"
         \/ r \in Staff /\ m \in {"updateField", "assign", "tag", "untag", "createTag",
                                  "escalate", "merge", "split"}
  BY DEF TicketDetailPage, Joined, Part, ReplyComposer, TicketSidebar, CsatRating,
         EscalateDialog, MergeDialog, SplitDialog, If

LEMMA TicketDetailShows ==
  ASSUME NEW r \in Role, NEW q \in TicketDetailPage(r).shows
  PROVE  q \in {"ticket", "history", "macros", "agents", "tags", "list"}
  BY DEF TicketDetailPage, Joined, Part, ReplyComposer, TicketSidebar, CsatRating,
         EscalateDialog, MergeDialog, SplitDialog, If

LEMMA TicketsPageHas ==
  ASSUME NEW r \in Role
  PROVE  /\ TicketsPage(r).shows \subseteq {"list", "savedFilters"}
         /\ TicketsPage(r).offers \subseteq {"createFilter", "deleteFilter"}
                                    \cup (IF r \in Staff THEN {"updateStatus"} ELSE {})
  BY DEF TicketsPage, Joined, Part, SavedFiltersMenu, KanbanBoard, CalendarView, If

LEMMA DashboardHas ==
  ASSUME NEW r \in Role
  PROVE  /\ Dashboard(r).offers = {}
         /\ \A q \in Dashboard(r).shows :
              \/ q \in {"list", "notifications", "health"}
              \/ q \in {"slaDashboard", "slaViolations"} /\ r \in Seniors
              \/ q = "team" /\ r \in Managers
  BY DEF Dashboard, CustomerDashboard, AgentDashboard, ManagerDashboard,
         AdminDashboard, Part, If, Role, Seniors, Managers

LEMMA OtherPagesHave ==
  /\ TeamPage.shows = {"team"} /\ TeamPage.offers = {"updateMember", "invite"}
  /\ SlaSettingsPage.shows = {"businessHours", "policies"}
  /\ SlaSettingsPage.offers = {"updatePolicy"}
  /\ \A r \in Role : /\ ArticleDetailPage(r).shows = {"article"}
                     /\ ArticleDetailPage(r).offers
                          = IF r \in Staff THEN {"updateArticle", "deleteArticle"}
                                           ELSE {}
  BY DEF TeamPage, SlaSettingsPage, InviteMemberDialog, PolicyCard, Joined, Part,
         ArticleDetailPage, If

LEMMA LayoutHas ==
  /\ Layout.shows = {"me", "palette", "notifications"}
  /\ Layout.offers = {"markRead", "markAllRead"}
  BY DEF Layout, SignedIn, CommandPalette, NotificationBell, Joined, Part

\* A page offers nothing that the API refuses to its user.
LEMMA OffersAreGranted ==
  ASSUME NEW p \in Page, NEW r \in Role, NEW m \in Offers[p][r]
  PROVE  r \in Writes[m].grants
<1>1. CASE m \in Layout.offers
  BY <1>1, LayoutHas, GrantsAre
<1>2. CASE m \notin Layout.offers
  <2>1. m \in Content(p, r).offers /\ r \in Guard(p)
    BY <1>2 DEF Offers, If
  <2>2. CASE p \in {"dashboard", "tickets"}
    BY <2>1, <2>2, DashboardHas, TicketsPageHas, GrantsAre
       DEF Content, OfTickets, OnTicket, TicketGrants, ByTheCustomerToo
  <2>3. CASE p = "ticket"
    BY <2>1, <2>3, TicketDetailOffers, GrantsAre
       DEF Content, OfTickets, OnTicket, TicketGrants, ByTheCustomerToo, Watching
  <2>4. CASE p \in {"newTicket", "articles", "article", "newArticle", "macros"}
    BY <2>1, <2>4, OtherPagesHave, GrantsAre
       DEF Content, NewTicketPage, KnowledgeBasePage, NewArticlePage, MacrosPage, Part,
           Guard, OfTickets, TicketGrants, ByTheCustomerToo
  <2>5. CASE p \in {"team", "sla", "slaSettings", "sessions"}
    BY <2>1, <2>5, OtherPagesHave, GrantsAre
       DEF Content, SlaDashboardPage, SessionsPage, Part, Guard
  <2>6. CASE p \in {"apiKeys", "webhooks", "organization", "profile"}
    BY <2>1, <2>6, GrantsAre
       DEF Content, ApiKeysPage, WebhooksPage, OrganizationSettingsPage, ProfilePage,
           Part, Guard
  <2>7. CASE p \in {"analytics", "auditLogs"}
    BY <2>1, <2>7 DEF Content, AnalyticsPage, AuditLogsPage, Part
  <2> QED
    BY <2>2, <2>3, <2>4, <2>5, <2>6, <2>7 DEF Page
<1> QED
  BY <1>1, <1>2

LEMMA OffersAreWrites ==
  ASSUME NEW p \in Page, NEW r \in Role, NEW m \in Offers[p][r]
  PROVE  m \in DOMAIN Writes
<1>1. CASE m \in Layout.offers
  BY <1>1, LayoutHas, WritesHave
<1>2. CASE m \notin Layout.offers
  <2>1. m \in Content(p, r).offers
    BY <1>2 DEF Offers, If
  <2>2. CASE p \in {"dashboard", "tickets", "ticket"}
    BY <2>1, <2>2, DashboardHas, TicketsPageHas, TicketDetailOffers, WritesHave
       DEF Content, OfTickets, OnTicket
  <2>3. CASE p \in {"newTicket", "articles", "article", "newArticle", "macros"}
    BY <2>1, <2>3, OtherPagesHave, WritesHave
       DEF Content, NewTicketPage, KnowledgeBasePage, NewArticlePage, MacrosPage, Part,
           OfTickets
  <2>4. CASE p \in {"team", "sla", "slaSettings", "sessions"}
    BY <2>1, <2>4, OtherPagesHave, WritesHave
       DEF Content, SlaDashboardPage, SessionsPage, Part
  <2>5. CASE p \in {"apiKeys", "webhooks", "organization", "profile"}
    BY <2>1, <2>5, WritesHave
       DEF Content, ApiKeysPage, WebhooksPage, OrganizationSettingsPage, ProfilePage, Part
  <2>6. CASE p \in {"analytics", "auditLogs"}
    BY <2>1, <2>6 DEF Content, AnalyticsPage, AuditLogsPage, Part
  <2> QED
    BY <2>2, <2>3, <2>4, <2>5, <2>6 DEF Page
<1> QED
  BY <1>1, <1>2

\* A page that renders for a role mounts no query that the API refuses to it,
\* but for two on the ticket page of a customer.
LEMMA ShownIsAnswered ==
  ASSUME NEW p \in Page, NEW r \in Role, NEW q \in Shows[p][r], r \in Guard(p),
         r \notin Answered[q]
  PROVE  r = "CUSTOMER" /\ p = "ticket" /\ q \in {"macros", "agents"}
<1>1. q \notin Layout.shows
  BY LayoutHas, AnswersAre
<1>2. q \in Content(p, r).shows
  BY <1>1 DEF Shows
<1>3. CASE p \in {"dashboard", "tickets"}
  BY <1>2, <1>3, DashboardHas, TicketsPageHas, AnswersAre DEF Content
<1>4. CASE p = "ticket"
  BY <1>2, <1>4, TicketDetailShows, AnswersAre DEF Content, Staff, Role
<1>5. CASE p \in {"newTicket", "articles", "article", "newArticle", "macros"}
  BY <1>2, <1>5, OtherPagesHave, AnswersAre
     DEF Content, NewTicketPage, KnowledgeBasePage, NewArticlePage, MacrosPage, Part,
         Guard
<1>6. CASE p \in {"team", "sla", "slaSettings", "sessions"}
  BY <1>2, <1>6, OtherPagesHave, AnswersAre
     DEF Content, SlaDashboardPage, SessionsPage, Part, Guard
<1>7. CASE p \in {"apiKeys", "webhooks", "organization", "profile"}
  BY <1>2, <1>7, AnswersAre
     DEF Content, ApiKeysPage, WebhooksPage, OrganizationSettingsPage, ProfilePage,
         Part, Guard
<1>8. CASE p \in {"analytics", "auditLogs"}
  BY <1>2, <1>8, AnswersAre DEF Content, AnalyticsPage, AuditLogsPage, Part, Guard
<1> QED
  BY <1>3, <1>4, <1>5, <1>6, <1>7, <1>8 DEF Page

-----------------------------------------------------------------------------
(* Screens: the invariant *)

\* What is followed is what the initial state picked.
Followed ==
  /\ own # NULL => own \in Mutation /\ query \in Writes[own].changes
  /\ other # NULL => other \in DOMAIN Writes /\ query \in ChangesForOthers(other)

\* The user's request is granted, and its answer holds what it wrote.
RequestIsGranted ==
  /\ mine \notin {Unasked, Sent} => mine \in SUBSET {"other"} /\ own # NULL
  /\ mine = Sent => own # NULL /\ role \in Writes[own].grants

EventsConcern == \A e \in events : Concerns(e)

\* The tab will be told of who's change.
Coming(who) ==
  \/ events # {}
  \/ who = "own" /\ mine \in Lacks /\ Dropped(own, query)

\* The cached answer will be replaced by one that has it.
Replaced(who) ==
  \/ fetch = Asked
  \/ fetch \in Lacks /\ who \notin fetch
  \/ invalid /\ ~Mounted

\* An answer without who's change is not the last word, in the cache or on its
\* way, unless the tab is excused.
Shown(who) ==
  excused = FALSE =>
    /\ who \in data => Coming(who) \/ Replaced(who)
    /\ who \in fetch => Coming(who)

OwnIsShown == <<own, query>> \notin Forgotten => Shown("own")
OtherIsShown == query \in Live /\ other \notin Unannounced => Shown("other")

ScreensIInv ==
  /\ ScreensTypeOK /\ Followed /\ RequestIsGranted /\ EventsConcern
  /\ OwnIsShown /\ OtherIsShown

LEMMA Marks ==
  /\ None \notin Lacks /\ Asked \notin Lacks /\ Sent \notin Lacks /\ Refused \notin Lacks
  /\ Unasked = None /\ Asked # Unasked /\ Sent # Unasked /\ Refused # Unasked /\ Sent # Refused
  /\ {} \in Lacks /\ \A who \in {"own", "other"} : who \notin None /\ who \notin Asked
  /\ SUBSET {"other"} \subseteq Lacks
  BY DEF Lacks, None, Asked, Sent, Refused, Unasked

LEMMA PagesAre == "dashboard" \in Page /\ \A p \in Page : Redirect(p) \in Page
  BY DEF Page, Redirect

LEMMA EmitsAnnouncements ==
  ASSUME NEW m
  PROVE  Emits(m) \cup If(m \in Notifying, {"notification:new"}) \subseteq Announcement
  BY DEF Emits, If, Announcement

LEMMA ScreensBegin == ScreensInit => ScreensIInv
<1> SUFFICES ASSUME ScreensInit PROVE ScreensIInv
  OBVIOUS
<1>1. ScreensTypeOK
  <2>1. {own, other} \subseteq DOMAIN Writes \cup {NULL}
    BY ScreensAssumption DEF ScreensInit, Writes
  <2> QED
    BY <2>1, PagesAre DEF ScreensInit, ScreensTypeOK
<1>2. Followed
  BY ScreensAssumption DEF ScreensInit, Followed
<1>3. RequestIsGranted /\ EventsConcern
  BY Marks DEF ScreensInit, RequestIsGranted, EventsConcern
<1>4. \A who \in {"own", "other"} : Shown(who)
  BY Marks DEF ScreensInit, Shown
<1> QED
  BY <1>1, <1>2, <1>3, <1>4 DEF ScreensIInv, OwnIsShown, OtherIsShown

\* An invalidation leaves nothing unreplaced.
LEMMA InvalidateShows ==
  ASSUME ScreensTypeOK, Invalidate, data' = data, UNCHANGED <<role, query, page>>,
         NEW who \in {"own", "other"}
  PROVE  Shown(who)'
<1>1. CASE Mounted /\ (fetch = Unasked \/ data # None)
  <2>1. fetch' = Asked
    BY <1>1 DEF Invalidate, Refetch
  <2> QED
    BY <2>1, Marks DEF Shown, Replaced
<1>2. CASE ~(Mounted /\ (fetch = Unasked \/ data # None))
  <2>1. /\ fetch' = fetch /\ excused' = (excused \/ fetch \in Lacks \ {{}})
        /\ invalid' = (data # None \/ fetch # Unasked \/ Mounted)
    BY <1>2 DEF Invalidate
  <2> SUFFICES ASSUME excused' = FALSE
               PROVE  /\ who \in data => Replaced(who)'
                      /\ who \notin fetch
    BY <2>1 DEF Shown
  <2>2. who \notin fetch
    BY <2>1, Marks DEF ScreensTypeOK
  <2>3. ASSUME who \in data PROVE Replaced(who)'
    <3>1. data # None
      BY <2>3, Marks
    <3>2. ~Mounted /\ invalid'
      BY <1>2, <2>1, <3>1
    <3>3. ~Mounted'
      BY <3>2 DEF Mounted
    <3> QED
      BY <3>2, <3>3 DEF Replaced
  <2> QED
    BY <2>2, <2>3
<1> QED
  BY <1>1, <1>2

-----------------------------------------------------------------------------
(* Screens: the steps *)

LEMMA WithoutIs ==
  ASSUME NEW who \in {"own", "other"}, NEW answer \in Lacks \cup {None, Asked, Sent, Refused}
  PROVE  /\ answer \in Lacks => Without(answer, who) \in Lacks
         /\ answer \notin Lacks => Without(answer, who) = answer
         /\ \A v \in {"own", "other"} \ {who} :
              v \in Without(answer, who) <=> v \in answer
  BY DEF Without, Lacks

LEMMA InvalidateTypes ==
  ASSUME ScreensTypeOK, NEW prefixes, InvalidateBy(prefixes)
  PROVE  /\ data' = data /\ invalid' \in BOOLEAN /\ excused' \in BOOLEAN
         /\ fetch' \in Lacks \cup {Unasked, Asked}
  BY DEF ScreensTypeOK, InvalidateBy, Invalidate, Refetch

LEMMA AnnounceTypes ==
  ASSUME ScreensTypeOK, NEW sent \in SUBSET Announcement,
         Announce(sent) \/ DieUnannounced
  PROVE  events' \subseteq Announcement /\ excused' \in BOOLEAN
  BY DEF ScreensTypeOK, Announce, DieUnannounced

LEMMA OpenIs ==
  ASSUME ScreensTypeOK, NEW p \in Page, Open(p)
  PROVE  /\ page' = p /\ UNCHANGED <<followed, data, invalid, mine, events, live>>
         /\ \/ Refetch
            \/ Still /\ (query \in Content(p, role).shows =>
                           fetch # Unasked \/ (data # None /\ ~invalid))
  BY DEF Open, Still

LEMMA NavigateOpens ==
  ASSUME ScreensTypeOK, Navigate
  PROVE  \E p \in Page : Open(p)
<1>1. CASE \E p \in Around \ {page} : role \in Guard(page) /\ Open(p)
  BY <1>1, PagesAre DEF Around
<1>2. CASE role \notin Guard(page) /\ Open(Redirect(page))
  BY <1>2, PagesAre DEF ScreensTypeOK
<1> QED
  BY <1>1, <1>2 DEF Navigate

LEMMA ScreensTypes ==
  ASSUME ScreensTypeOK, [ScreensNext]_screenVars
  PROVE  ScreensTypeOK'
<1>1. CASE Navigate
  <2>1. PICK p \in Page : Open(p)
    BY <1>1, NavigateOpens
  <2> QED
    BY <2>1, OpenIs DEF Refetch, Still, ScreensTypeOK, followed
<1>2. CASE Read \/ Succeed \/ Poll \/ Collect
  BY <1>2, Marks DEF Read, Succeed, Poll, Collect, Refetch, ScreensTypeOK, followed
<1>3. CASE FetchFails
  BY <1>3 DEF FetchFails, ScreensTypeOK, followed
<1>4. CASE Send \/ LoseLink \/ RegainLink
  BY <1>4 DEF Send, LoseLink, RegainLink, ScreensTypeOK, followed
<1>5. CASE Serve
  <2>1. data' \in Lacks \cup {None} /\ fetch' \in Lacks \cup {Unasked, Asked}
    BY <1>5, Marks, WithoutIs DEF Serve, Outdate, ScreensTypeOK
  <2>2. mine' \in Lacks \cup {Unasked, Sent, Refused}
    BY <1>5, Marks DEF Serve
  <2>3. events' \subseteq Announcement /\ excused' \in BOOLEAN
    BY <1>5, AnnounceTypes, EmitsAnnouncements DEF Serve, ScreensTypeOK
  <2> QED
    BY <1>5, <2>1, <2>2, <2>3 DEF Serve, ScreensTypeOK, followed
<1>6. CASE Done
  <2>1. /\ data' \in Lacks \cup {None} /\ fetch' \in Lacks \cup {Unasked, Asked}
        /\ invalid' \in BOOLEAN /\ excused' \in BOOLEAN
    <3>1. CASE InvalidateBy(Drops[own])
      BY <3>1, InvalidateTypes DEF ScreensTypeOK
    <3>2. CASE /\ data' = mine /\ invalid' = FALSE /\ fetch' = fetch
               /\ excused' = (fetch \in Lacks)
      <4>1. mine \in Lacks
        BY <1>6 DEF Done
      <4>2. CASE fetch \in Lacks
        BY <3>2, <4>1, <4>2 DEF ScreensTypeOK
      <4>3. CASE fetch \notin Lacks
        <5>1. (fetch \in Lacks) = FALSE
          BY <4>3
        <5>2. excused' = FALSE
          BY <3>2, <5>1, Zenon
        <5> QED
          BY <3>2, <4>1, <5>2 DEF ScreensTypeOK
      <4> QED
        BY <4>2, <4>3
    <3>3. CASE excused' = TRUE /\ UNCHANGED <<data, invalid, fetch>>
      BY <3>3 DEF ScreensTypeOK
    <3> QED
      BY <1>6, <3>1, <3>2, <3>3 DEF Done
  <2> QED
    BY <1>6, <2>1 DEF Done, ScreensTypeOK, followed
<1>7. CASE OtherWrites
  <2>1. data' \in Lacks \cup {None} /\ fetch' \in Lacks \cup {Unasked, Asked}
    BY <1>7, Marks, WithoutIs DEF OtherWrites, Outdate, ScreensTypeOK
  <2>2. mine' \in Lacks \cup {Unasked, Sent, Refused}
    BY <1>7, Marks, WithoutIs DEF OtherWrites, ScreensTypeOK
  <2>3. events' \subseteq Announcement /\ excused' \in BOOLEAN
    BY <1>7, AnnounceTypes, EmitsAnnouncements DEF OtherWrites
  <2> QED
    BY <1>7, <2>1, <2>2, <2>3 DEF OtherWrites, ScreensTypeOK, followed
<1>8. CASE Hear
  <2>1. PICK e \in events : /\ events' = events \ {e} /\ InvalidateBy(Heard(e))
                            /\ UNCHANGED <<followed, page, mine, live>>
    BY <1>8 DEF Hear
  <2> QED
    BY <2>1, InvalidateTypes DEF ScreensTypeOK, followed
<1>9. CASE UNCHANGED screenVars
  BY <1>9 DEF screenVars, followed, ScreensTypeOK
<1> QED
  BY <1>1, <1>2, <1>3, <1>4, <1>5, <1>6, <1>7, <1>8, <1>9 DEF ScreensNext

LEMMA FollowedStays ==
  ASSUME [ScreensNext]_screenVars
  PROVE  UNCHANGED <<role, query, own, other>> /\ (Followed => Followed')
<1>1. UNCHANGED followed
  BY DEF ScreensNext, screenVars, Navigate, Open, Read, Succeed, FetchFails, Poll,
         Collect, Send, Serve, Done, OtherWrites, Hear, LoseLink, RegainLink
<1> QED
  BY <1>1 DEF followed, Followed

LEMMA RequestStays ==
  ASSUME ScreensIInv, [ScreensNext]_screenVars
  PROVE  RequestIsGranted'
<1>1. /\ UNCHANGED <<role, query, own, other>> /\ RequestIsGranted
      /\ mine \in Lacks \cup {Unasked, Sent, Refused} /\ page \in Page /\ role \in Role
  BY FollowedStays DEF ScreensIInv, ScreensTypeOK
<1>2. CASE Send
  <2>1. own \in Offers[page][role] /\ mine' = Sent
    BY <1>2 DEF Send
  <2>2. role \in Writes[own].grants
    BY <1>1, <2>1, OffersAreGranted
  <2>3. own # NULL
    BY <1>1, <2>1, OffersAreWrites, ScreensAssumption
  <2> QED
    BY <1>1, <2>1, <2>2, <2>3 DEF RequestIsGranted
<1>3. CASE Serve
  <2>1. mine = Sent /\ own # NULL /\ role \in Writes[own].grants
    BY <1>1, <1>3 DEF Serve, RequestIsGranted
  <2>2. mine' \in {Unasked, {}}
    BY <1>3, <2>1 DEF Serve
  <2> QED
    BY <1>1, <2>1, <2>2, Marks DEF RequestIsGranted
<1>4. CASE OtherWrites
  <2>1. mine' = Without(mine, "other")
    BY <1>4 DEF OtherWrites
  <2>2. CASE mine \in Lacks
    <3>1. mine \in SUBSET {"other"} /\ own # NULL
      BY <1>1, <2>2, Marks DEF RequestIsGranted
    <3>2. mine' \in SUBSET {"other"}
      BY <2>1, <2>2, <3>1 DEF Without
    <3> QED
      BY <1>1, <3>1, <3>2, Marks DEF RequestIsGranted
  <2>3. CASE mine \notin Lacks
    <3>1. mine' = mine
      BY <2>1, <2>3 DEF Without
    <3> QED
      BY <1>1, <3>1 DEF RequestIsGranted
  <2> QED
    BY <2>2, <2>3
<1>5. CASE Done
  BY <1>1, <1>5, Marks DEF Done, RequestIsGranted
<1>6. CASE UNCHANGED mine
  BY <1>1, <1>6 DEF RequestIsGranted
<1>7. Send \/ Serve \/ OtherWrites \/ Done \/ UNCHANGED mine
  BY DEF ScreensNext, screenVars, Navigate, Open, Read, Succeed, FetchFails, Poll,
         Collect, Hear, LoseLink, RegainLink
<1> QED
  BY <1>2, <1>3, <1>4, <1>5, <1>6, <1>7

LEMMA EventsStayConcerning ==
  ASSUME ScreensIInv, [ScreensNext]_screenVars
  PROVE  EventsConcern'
<1>1. UNCHANGED query /\ EventsConcern
  BY FollowedStays DEF ScreensIInv
<1>2. \A e : Concerns(e)' <=> Concerns(e)
  BY <1>1 DEF Concerns
<1>3. ASSUME NEW sent, Announce(sent) \/ DieUnannounced
      PROVE  EventsConcern'
  BY <1>1, <1>2, <1>3 DEF Announce, DieUnannounced, EventsConcern
<1>4. CASE Serve
  BY <1>1, <1>2, <1>3, <1>4 DEF Serve, EventsConcern
<1>5. CASE OtherWrites
  BY <1>3, <1>5 DEF OtherWrites
<1>6. CASE events' \subseteq events
  BY <1>1, <1>2, <1>6 DEF EventsConcern
<1>7. Serve \/ OtherWrites \/ events' \subseteq events
  BY DEF ScreensNext, screenVars, Navigate, Open, Read, Succeed, FetchFails, Poll,
         Collect, Send, Done, Hear, LoseLink, RegainLink
<1> QED
  BY <1>4, <1>5, <1>6, <1>7

\* Opening a page leaves no stale answer on it.
LEMMA NavigateShows ==
  ASSUME ScreensIInv, Navigate, NEW who \in {"own", "other"}, Shown(who)
  PROVE  Shown(who)'
<1>1. PICK p \in Page : Open(p)
  BY NavigateOpens DEF ScreensIInv
<1>2. /\ page' = p /\ UNCHANGED <<role, query, own, data, invalid, mine, events>>
      /\ \/ Refetch
         \/ Still /\ (query \in Content(p, role).shows =>
                        fetch # Unasked \/ (data # None /\ ~invalid))
  BY <1>1, OpenIs DEF ScreensIInv, followed
<1>3. CASE Refetch
  BY <1>3, Marks DEF Refetch, Shown, Replaced
<1>4. CASE Still /\ (query \in Content(p, role).shows =>
                       fetch # Unasked \/ (data # None /\ ~invalid))
  <2>1. UNCHANGED <<fetch, excused>> /\ Coming(who)' = Coming(who)
    BY <1>2, <1>4 DEF Still, Coming, Dropped, Puts, Matches
  <2> SUFFICES ASSUME excused = FALSE, who \in data, ~Coming(who)
               PROVE  Replaced(who)'
    BY <1>2, <2>1 DEF Shown
  <2>2. Replaced(who) /\ who \notin fetch
    BY DEF Shown
  <2>3. CASE fetch # Unasked
    BY <2>1, <2>2, <2>3, Marks DEF ScreensIInv, ScreensTypeOK, Replaced
  <2>4. CASE fetch = Unasked
    <3>1. invalid /\ ~Mounted
      BY <2>2, <2>4, Marks DEF Replaced
    <3>2. query \notin Content(p, role).shows
      BY <1>4, <2>4, <3>1
    <3>3. query \notin Layout.shows
      BY <3>1 DEF Mounted, Shows, ScreensIInv, ScreensTypeOK
    <3>4. ~Mounted'
      BY <1>2, <3>2, <3>3 DEF Mounted, Shows, ScreensIInv, ScreensTypeOK
    <3> QED
      BY <1>2, <3>1, <3>4 DEF Replaced
  <2> QED
    BY <2>3, <2>4
<1> QED
  BY <1>2, <1>3, <1>4

\* Neither does an answer that arrives, or one that does not.
LEMMA FetchingShows ==
  ASSUME ScreensIInv, Read \/ Succeed \/ FetchFails \/ Poll \/ Collect,
         NEW who \in {"own", "other"}, Shown(who)
  PROVE  Shown(who)'
<1>1. UNCHANGED <<role, query, own, page, mine, events>>
  BY DEF Read, Succeed, FetchFails, Poll, Collect, followed
<1>2. Coming(who)' = Coming(who) /\ Mounted' = Mounted
  BY <1>1 DEF Coming, Dropped, Puts, Matches, Mounted
<1>3. CASE Read
  BY <1>2, <1>3, Marks DEF Read, Shown, Replaced
<1>4. CASE Succeed
  BY <1>2, <1>4, Marks DEF Succeed, Shown, Replaced
<1>5. CASE FetchFails \/ Poll
  BY <1>5, Marks DEF FetchFails, Poll, Refetch, Shown, Replaced
<1>6. CASE Collect
  BY <1>6, Marks DEF Collect, Shown, Replaced
<1> QED
  BY <1>3, <1>4, <1>5, <1>6

\* What is announced is on its way, or the tab is excused.
LEMMA AnnounceTells ==
  ASSUME ScreensTypeOK, NEW sent, Announce(sent) \/ DieUnannounced, excused' = FALSE
  PROVE  /\ excused = FALSE /\ events \subseteq events'
         /\ (\E e \in sent : Concerns(e)) => events' # {}
<1>1. Announce(sent)
  BY DEF DieUnannounced
<1> DEFINE told == {e \in sent : Concerns(e)}
<1>2. CASE live
  BY <1>1, <1>2 DEF Announce
<1>3. CASE ~live
  <2>1. events' = events /\ excused' = (excused \/ told # {})
    BY <1>1, <1>3 DEF Announce
  <2>2. excused = FALSE /\ told = {}
    BY <2>1 DEF ScreensTypeOK
  <2> QED
    BY <2>1, <2>2
<1> QED
  BY <1>2, <1>3

\* An outdated answer lacks what it lacked, and one more.
LEMMA OutdateKeeps ==
  ASSUME ScreensTypeOK, NEW w \in {"own", "other"}, Outdate(w),
         NEW who \in {"own", "other"} \ {w}, UNCHANGED <<role, query, page, invalid>>
  PROVE  /\ who \in data' <=> who \in data
         /\ who \in fetch' <=> who \in fetch
         /\ Replaced(who) => Replaced(who)'
<1>1. /\ who \in data' <=> who \in data
      /\ who \in fetch' <=> who \in fetch
      /\ fetch \in Lacks => fetch' \in Lacks
      /\ fetch = Asked => fetch' = Asked
  BY WithoutIs, Marks DEF Outdate, ScreensTypeOK
<1>2. Mounted' = Mounted
  BY DEF Mounted
<1> QED
  BY <1>1, <1>2 DEF Replaced

LEMMA ServeShows ==
  ASSUME ScreensIInv, Serve
  PROVE  OwnIsShown' /\ OtherIsShown'
<1>1. /\ UNCHANGED <<role, query, own, other, page, invalid, live>>
      /\ ScreensTypeOK /\ mine = Sent /\ own # NULL /\ mine \notin Lacks
  BY Marks DEF Serve, followed, ScreensIInv, RequestIsGranted
<1>2. own \in Mutation /\ query \in Writes[own].changes
  BY <1>1 DEF ScreensIInv, Followed
<1>3. CASE mine' \in {Unasked, Refused} /\ UNCHANGED <<data, fetch, events, excused>>
  <2>1. \A who \in {"own", "other"} :
          Coming(who)' = Coming(who) /\ Replaced(who)' = Replaced(who)
    BY <1>1, <1>3, Marks DEF Coming, Dropped, Puts, Matches, Replaced, Mounted
  <2> QED
    BY <1>1, <1>3, <2>1 DEF ScreensIInv, OwnIsShown, OtherIsShown, Shown
<1>4. CASE /\ Outdate("own")
           /\ \/ mine' = {} /\ Announce(Emits(own))
              \/ mine' = Unasked /\ DieUnannounced
  <2>1. ASSUME <<own, query>> \notin Forgotten, excused' = FALSE
        PROVE  Coming("own")'
    <3>1. mine' = {} /\ Announce(Emits(own))
      BY <1>4, <2>1 DEF DieUnannounced
    <3>2. CASE Dropped(own, query)
      BY <1>1, <3>1, <3>2, Marks DEF Coming, Dropped, Puts, Matches
    <3>3. CASE \E e \in Emits(own) : Reaches(e, query)
      <4>1. events' # {}
        BY <1>1, <2>1, <3>1, <3>3, AnnounceTells DEF Reaches, Concerns
      <4> QED
        BY <4>1 DEF Coming
    <3> QED
      BY <1>2, <2>1, <3>2, <3>3, OwnChangesShow
  <2>2. OwnIsShown'
    BY <1>1, <2>1 DEF OwnIsShown, Shown
  <2>3. ASSUME excused' = FALSE
        PROVE  excused = FALSE /\ (Coming("other") => Coming("other")')
    <3>1. excused = FALSE /\ events \subseteq events'
      BY <1>1, <1>4, <2>3, AnnounceTells
    <3> QED
      BY <3>1 DEF Coming
  <2>4. OtherIsShown'
    BY <1>1, <1>4, <2>3, OutdateKeeps DEF ScreensIInv, OtherIsShown, Shown
  <2> QED
    BY <2>2, <2>4
<1> QED
  BY <1>1, <1>3, <1>4 DEF Serve

LEMMA OtherWritesShows ==
  ASSUME ScreensIInv, OtherWrites
  PROVE  OwnIsShown' /\ OtherIsShown'
<1> DEFINE sent == Emits(other) \cup If(other \in Notifying, {"notification:new"})
<1>1. /\ UNCHANGED <<role, query, own, other, page, invalid, live>> /\ ScreensTypeOK
      /\ other # NULL /\ Outdate("other") /\ mine' = Without(mine, "other")
      /\ Announce(sent) \/ DieUnannounced
  BY DEF OtherWrites, followed, ScreensIInv
<1> HIDE DEF sent
<1>2. ASSUME excused' = FALSE
      PROVE  /\ excused = FALSE /\ events \subseteq events'
             /\ (\E e \in sent : Concerns(e)) => events' # {}
  BY <1>1, <1>2, AnnounceTells
<1>3. OwnIsShown'
  <2>1. ASSUME excused' = FALSE, Coming("own")
        PROVE  Coming("own")'
    <3>1. CASE events # {}
      BY <1>2, <2>1, <3>1 DEF Coming
    <3>2. CASE mine \in Lacks /\ Dropped(own, query)
      <4>1. mine' \in Lacks
        BY <1>1, <3>2, WithoutIs
      <4> QED
        BY <1>1, <3>2, <4>1 DEF Coming, Dropped, Puts, Matches
    <3> QED
      BY <2>1, <3>1, <3>2 DEF Coming
  <2> QED
    BY <1>1, <1>2, <2>1, OutdateKeeps DEF ScreensIInv, OwnIsShown, Shown
<1>4. OtherIsShown'
  <2> SUFFICES ASSUME query \in Live, other \notin Unannounced, excused' = FALSE
               PROVE  Coming("other")'
    BY <1>1 DEF OtherIsShown, Shown
  <2>1. other \in DOMAIN Writes /\ query \in ChangesForOthers(other) \cap Live
    BY <1>1 DEF ScreensIInv, Followed
  <2>2. PICK e \in sent : Reaches(e, query)
    BY <2>1, OthersAreHeard DEF sent
  <2>3. events' # {}
    BY <1>2, <2>2 DEF Reaches, Concerns
  <2> QED
    BY <2>3 DEF Coming
<1> QED
  BY <1>3, <1>4

\* What the hook leaves alone was not waiting for it.
LEMMA DoneShows ==
  ASSUME ScreensIInv, Done
  PROVE  OwnIsShown' /\ OtherIsShown'
<1>1. /\ UNCHANGED <<role, query, own, other, page, events, live>> /\ ScreensTypeOK
      /\ mine \in Lacks /\ mine' = Unasked
  BY DEF Done, followed, ScreensIInv
<1>2. Mounted' = Mounted /\ Coming("other")' = Coming("other")
  BY <1>1 DEF Mounted, Coming
<1>3. CASE /\ query \notin Puts(own) /\ InvalidateBy(Drops[own])
           /\ \E prefix \in Drops[own] : Matches(prefix, query)
  <2>1. Invalidate /\ data' = data
    BY <1>3 DEF InvalidateBy
  <2>2. \A who \in {"own", "other"} : Shown(who)'
    BY <1>1, <2>1, InvalidateShows
  <2> QED
    BY <2>2 DEF OwnIsShown, OtherIsShown
<1>4. CASE /\ query \notin Puts(own) /\ InvalidateBy(Drops[own])
           /\ ~\E prefix \in Drops[own] : Matches(prefix, query)
  <2>1. UNCHANGED <<data, invalid, fetch, excused>>
    BY <1>4 DEF InvalidateBy
  <2>2. \A who \in {"own", "other"} : Replaced(who)' = Replaced(who)
    BY <1>2, <2>1 DEF Replaced
  <2>3. Coming("own") => Coming("own")'
    BY <1>1, <1>4 DEF Coming, Dropped
  <2> QED
    BY <1>1, <1>2, <2>1, <2>2, <2>3 DEF ScreensIInv, OwnIsShown, OtherIsShown, Shown
<1>5. CASE /\ query \in Puts(own) /\ data' = mine /\ fetch' = fetch
           /\ excused' = (fetch \in Lacks)
  <2>1. "own" \notin data'
    BY <1>1, <1>5, Marks DEF ScreensIInv, RequestIsGranted
  <2>2. excused' = FALSE => "own" \notin fetch'
    BY <1>1, <1>5, Marks DEF ScreensTypeOK
  <2>3. query \notin Live
    BY <1>5 DEF Puts, If, Live
  <2> QED
    BY <1>1, <2>1, <2>2, <2>3 DEF OwnIsShown, OtherIsShown, Shown
<1>6. CASE excused' = TRUE
  BY <1>6 DEF OwnIsShown, OtherIsShown, Shown
<1> QED
  BY <1>3, <1>4, <1>5, <1>6 DEF Done

\* Nor does the tab owe anything to an event it has heard, or lost.
LEMMA HearingShows ==
  ASSUME ScreensIInv, Hear \/ LoseLink \/ RegainLink \/ Send \/ UNCHANGED screenVars
  PROVE  OwnIsShown' /\ OtherIsShown'
<1>1. UNCHANGED <<role, query, own, other, page>> /\ ScreensTypeOK /\ EventsConcern
  BY DEF Hear, LoseLink, RegainLink, Send, screenVars, followed, ScreensIInv
<1>2. CASE Hear
  <2>1. PICK e \in events : events' = events \ {e} /\ InvalidateBy(Heard(e))
    BY <1>2 DEF Hear
  <2>2. Invalidate /\ data' = data
    BY <1>1, <2>1 DEF InvalidateBy, EventsConcern, Concerns
  <2>3. \A who \in {"own", "other"} : Shown(who)'
    BY <1>1, <2>2, InvalidateShows
  <2> QED
    BY <2>3 DEF OwnIsShown, OtherIsShown
<1>3. CASE /\ UNCHANGED <<data, invalid, fetch, excused, events>>
           /\ mine' = mine \/ Send
  <2>1. \A who \in {"own", "other"} :
          (Coming(who) => Coming(who)') /\ Replaced(who)' = Replaced(who)
    BY <1>1, <1>3, Marks
       DEF Coming, Dropped, Puts, Matches, Replaced, Mounted, Send
  <2> QED
    BY <1>1, <1>3, <2>1 DEF ScreensIInv, OwnIsShown, OtherIsShown, Shown
<1>4. CASE LoseLink
  <2>1. CASE events = {}
    <3>1. excused' = excused
      BY <1>1, <1>4, <2>1 DEF LoseLink, ScreensTypeOK
    <3> QED
      BY <1>3, <1>4, <2>1, <3>1 DEF LoseLink
  <2>2. CASE events # {}
    <3>1. excused' = TRUE
      BY <1>4, <2>2 DEF LoseLink
    <3> QED
      BY <3>1 DEF OwnIsShown, OtherIsShown, Shown
  <2> QED
    BY <2>1, <2>2
<1> QED
  BY <1>2, <1>3, <1>4 DEF RegainLink, Send, screenVars

LEMMA ShowingStays ==
  ASSUME ScreensIInv, [ScreensNext]_screenVars
  PROVE  OwnIsShown' /\ OtherIsShown'
<1>1. CASE Navigate \/ Read \/ Succeed \/ FetchFails \/ Poll \/ Collect
  <2>1. UNCHANGED <<query, own, other>>
    BY FollowedStays
  <2>2. \A who \in {"own", "other"} : Shown(who) => Shown(who)'
    BY <1>1, NavigateShows, FetchingShows
  <2> QED
    BY <2>1, <2>2 DEF ScreensIInv, OwnIsShown, OtherIsShown
<1>2. CASE Serve \/ OtherWrites \/ Done
  BY <1>2, ServeShows, OtherWritesShows, DoneShows
<1>3. CASE Hear \/ LoseLink \/ RegainLink \/ Send \/ UNCHANGED screenVars
  BY <1>3, HearingShows
<1> QED
  BY <1>1, <1>2, <1>3 DEF ScreensNext

-----------------------------------------------------------------------------
(* Screens: the theorems *)

\* The inductive invariant of the tab: what is followed, what the request under
\* way may hold, and that a stale answer is never the last word.
THEOREM ScreensInvariance == ScreensSpec => []ScreensIInv
<1>1. ScreensIInv /\ [ScreensNext]_screenVars => ScreensIInv'
  BY ScreensTypes, FollowedStays, RequestStays, EventsStayConcerning, ShowingStays
     DEF ScreensIInv
<1> QED
  BY <1>1, ScreensBegin, PTL DEF ScreensSpec

\* The tab's cache, its requests and its socket hold what they may hold.
THEOREM ScreensTypeCorrect == ScreensSpec => []ScreensTypeOK
<1>1. ScreensIInv => ScreensTypeOK
  BY DEF ScreensIInv
<1> QED
  BY <1>1, ScreensInvariance, PTL

\* For every query, mutation and role of the application: once all that is on
\* its way has arrived, the page shows what its user and the others have
\* changed, but for the named omissions of the hooks and the gateway.
THEOREM FreshScreens == ScreensSpec => []ScreensAreFresh
<1>1. ScreensIInv => ScreensAreFresh
  <2> SUFFICES ASSUME ScreensIInv, AtRest, Mounted, data # None, excused = FALSE
               PROVE  /\ "own" \in data => <<own, query>> \in Forgotten
                      /\ "other" \in data => query \notin Live \/ other \in Unannounced
    BY DEF ScreensAreFresh
  <2>1. \A who \in {"own", "other"} : ~Coming(who) /\ ~Replaced(who)
    BY Marks DEF AtRest, Coming, Replaced
  <2> QED
    BY <2>1 DEF ScreensIInv, OwnIsShown, OtherIsShown, Shown
<1> QED
  BY <1>1, ScreensInvariance, PTL

\* For every page and role: what the page offers is granted, and what it shows
\* is answered, but for the two queries of a customer's ticket page.
THEOREM NobodyTurnedAway == ScreensSpec => []NobodyIsTurnedAway
<1>1. ScreensIInv => NobodyIsTurnedAway
  <2> SUFFICES ASSUME ScreensIInv PROVE NobodyIsTurnedAway
    OBVIOUS
  <2>1. mine # Refused
    BY Marks DEF ScreensIInv, RequestIsGranted
  <2>2. ASSUME Mounted, role \in Guard(page), role \notin Answered[query]
        PROVE  role = "CUSTOMER" /\ page = "ticket" /\ query \in {"macros", "agents"}
    BY <2>2, ShownIsAnswered DEF Mounted, ScreensIInv, ScreensTypeOK
  <2> QED
    BY <2>1, <2>2 DEF NobodyIsTurnedAway
<1> QED
  BY <1>1, ScreensInvariance, PTL

=============================================================================
