------------------------------ MODULE Presence ------------------------------
(***************************************************************************)
(* Who is online: the socket counts of the gateway                         *)
(* (apps/backend/src/realtime/realtime.gateway.ts) and what each browser   *)
(* tab shows of them (apps/frontend/src/lib/realtime-context.tsx).         *)
(*                                                                         *)
(* Counts and rooms are kept per organization, so one organization is      *)
(* enough.  Verifying the access token and reading its session are one     *)
(* wait, after which the gateway runs to the end of trackPresence without  *)
(* yielding to the network: joining a room of the in-memory adapter is     *)
(* synchronous.  Events of a socket arrive in order or not at all; the     *)
(* snapshot travels over HTTP beside them.  Notifications, ticket rooms    *)
(* and typing are left out.                                                *)
(***************************************************************************)
EXTENDS Integers, Sequences, FiniteSets, Null

CONSTANTS
  Users,
  Tabs, UserOf,    \* browser tabs, and who is signed in there
  Sockets,         \* connections of the workload
  Gets             \* GET /realtime/presence requests under way at a time

ASSUME PresenceAssumption ==
  /\ UserOf \in [Tabs -> Users]
  /\ IsFiniteSet(Sockets)
  /\ NULL \notin Tabs /\ NULL \notin Sockets

VARIABLES
  presence,        \* userId -> active socket count, a Map
  socket,          \* both ends of a connection
  get,             \* presence snapshots asked for
  tab              \* SocketProvider of each tab

vars == <<presence, socket, get, tab>>

Event == [user : Users, online : BOOLEAN]

\* client.data.user is set exactly on an admitted socket.
Socket == [tab : Tabs \cup {NULL},
           pc : {"free", "verifying", "admitted", "rejected", "left"},
           open : BOOLEAN, inbox : Seq(Event)]

\* "valid" and "sure" are bookkeeping for ShownIsTrue: the users about whom a
\* snapshot, or the tab, knows no less than the events of the tab's socket.
Get == [pc : {"free", "asked", "answered"}, tab : Tabs \cup {NULL},
        seen : SUBSET Users, valid : SUBSET Users]

Tab == [mounted : BOOLEAN, socket : Sockets \cup {NULL},
        onlineUserIds : SUBSET Users, sure : SUBSET Users]

NoGet == [pc |-> "free", tab |-> NULL, seen |-> {}, valid |-> {}]

Init ==
  /\ presence = [u \in {} |-> 0]
  /\ socket = [s \in Sockets |->
       [tab |-> NULL, pc |-> "free", open |-> FALSE, inbox |-> <<>>]]
  /\ get = [g \in Gets |-> NoGet]
  /\ tab = [t \in Tabs |->
       [mounted |-> FALSE, socket |-> NULL, onlineUserIds |-> {}, sure |-> {}]]

-----------------------------------------------------------------------------
(* The gateway *)

Owner(s) == UserOf[socket[s].tab]
Online == DOMAIN presence
Count(u) == IF u \in Online THEN presence[u] ELSE 0

\* The members of the organization's room that an emit reaches: joining puts
\* a closed socket into a room too, but nothing is sent to it.
Reached(row) == row.pc = "admitted" /\ row.open

\* trackPresence: the entry goes when the count falls to zero ...
Tracked(u, delta) ==
  IF Count(u) + delta <= 0
  THEN [v \in Online \ {u} |-> presence[v]]
  ELSE [v \in Online \cup {u} |-> IF v = u THEN Count(u) + delta
                                           ELSE presence[v]]

\* Mutant: every socket that comes or goes is announced.
ToldAlways(u, delta) == <<[user |-> u, online |-> delta > 0]>>

\* ... and only the first socket and the last are announced.
Told(u, delta) ==
  LET wasOnline == Count(u) > 0
      isOnline == Count(u) + delta > 0
  IN IF wasOnline # isOnline
     THEN <<[user |-> u, online |-> isOnline]>> ELSE <<>>

\* What is sent to a client that has gone is not kept.
Emitted(rows, events) ==
  [s \in Sockets |-> IF Reached(rows[s]) /\ tab[rows[s].tab].socket = s
                     THEN [rows[s] EXCEPT !.inbox = @ \o events]
                     ELSE rows[s]]

\* handleConnection of a session that is alive.  The transport may have been
\* closed while the session was read.
Admit(s) ==
  /\ socket[s].pc = "verifying"
  /\ presence' = Tracked(Owner(s), 1)
  /\ socket' = Emitted([socket EXCEPT ![s].pc = "admitted"], Told(Owner(s), 1))
  /\ UNCHANGED <<get, tab>>

\* handleConnection's catch: handleDisconnect then finds no user.
Reject(s) ==
  /\ socket[s].pc = "verifying"
  /\ socket' = [socket EXCEPT ![s].pc = "rejected", ![s].open = FALSE]
  /\ UNCHANGED <<presence, get, tab>>

Closed(s) == [socket EXCEPT ![s].open = FALSE]

\* Mutant: a socket that is still being verified is counted down.
DisconnectEarly(s) ==
  /\ socket[s].open
  /\ presence' = Tracked(Owner(s), -1)
  /\ socket' = Emitted(Closed(s), Told(Owner(s), -1))
  /\ UNCHANGED <<get, tab>>

\* The transport closes, or the server notices that it has: handleDisconnect.
Disconnect(s) ==
  /\ socket[s].open
  /\ \/ /\ socket[s].pc = "admitted"
        /\ presence' = Tracked(Owner(s), -1)
        /\ socket' = Emitted([Closed(s) EXCEPT ![s].pc = "left"],
                             Told(Owner(s), -1))
     \/ /\ socket[s].pc = "verifying"
        /\ socket' = Closed(s)
        /\ UNCHANGED presence
  /\ UNCHANGED <<get, tab>>

-----------------------------------------------------------------------------
(* The snapshot *)

\* getOnlineUserIds
Answer(g) ==
  LET s == tab[get[g].tab].socket
  IN /\ get[g].pc = "asked"
     /\ get' = [get EXCEPT ![g].pc = "answered", ![g].seen = Online,
                           ![g].valid = IF s # NULL /\ Reached(socket[s])
                                        THEN Users ELSE {}]
     /\ UNCHANGED <<presence, socket, tab>>

\* It replaces what is shown, and comes even when the effect that asked has
\* been cleaned up.
Apply(g) ==
  /\ get[g].pc = "answered"
  /\ tab' = [tab EXCEPT ![get[g].tab].onlineUserIds = get[g].seen,
                        ![get[g].tab].sure = get[g].valid]
  /\ get' = [get EXCEPT ![g] = NoGet]
  /\ UNCHANGED <<presence, socket>>

\* The request or its answer is lost: catch(() => undefined).
LoseGet(g) ==
  /\ get[g].pc \in {"asked", "answered"}
  /\ get' = [get EXCEPT ![g] = NoGet]
  /\ UNCHANGED <<presence, socket, tab>>

-----------------------------------------------------------------------------
(* A tab *)

Connecting(t) == [tab |-> t, pc |-> "verifying", open |-> TRUE, inbox |-> <<>>]

\* What t's snapshots under way know besides the users in U.
Overtaken(t, U) ==
  [g \in Gets |-> IF get[g].tab = t
                  THEN [get[g] EXCEPT !.valid = @ \ U] ELSE get[g]]

\* The effect runs: a connection is opened and a snapshot asked for.
Mount(t, s, g) ==
  /\ ~tab[t].mounted
  /\ socket[s].pc = "free" /\ get[g].pc = "free"
  /\ socket' = [socket EXCEPT ![s] = Connecting(t)]
  /\ get' = [get EXCEPT ![g].pc = "asked", ![g].tab = t]
  /\ tab' = [tab EXCEPT ![t].mounted = TRUE, ![t].socket = s]
  /\ UNCHANGED presence

\* The connection is lost and socket.io opens another one, perhaps before the
\* server has noticed.  A rejected client is not reconnected, and no new
\* snapshot is asked for.
Reconnect(t, s) ==
  /\ tab[t].mounted
  /\ socket[tab[t].socket].pc # "rejected"
  /\ socket[s].pc = "free"
  /\ socket' = [socket EXCEPT ![tab[t].socket].inbox = <<>>,
                              ![s] = Connecting(t)]
  /\ tab' = [tab EXCEPT ![t].socket = s, ![t].sure = {}]
  /\ get' = Overtaken(t, Users)
  /\ UNCHANGED presence

\* The effect's cleanup; the server learns of it later.
Unmount(t) ==
  /\ tab[t].mounted
  /\ socket' = [socket EXCEPT ![tab[t].socket].inbox = <<>>]
  /\ tab' = [tab EXCEPT ![t] = [mounted |-> FALSE, socket |-> NULL,
                                onlineUserIds |-> {}, sure |-> {}]]
  /\ get' = Overtaken(t, Users)
  /\ UNCHANGED presence

\* presence:update
Deliver(t) ==
  /\ tab[t].mounted
  /\ socket[tab[t].socket].inbox # <<>>
  /\ LET e == Head(socket[tab[t].socket].inbox)
     IN /\ tab' = [tab EXCEPT
             ![t].onlineUserIds = IF e.online THEN @ \cup {e.user}
                                              ELSE @ \ {e.user},
             ![t].sure = @ \cup {e.user}]
        /\ get' = Overtaken(t, {e.user})
  /\ socket' = [socket EXCEPT ![tab[t].socket].inbox = Tail(@)]
  /\ UNCHANGED presence

Next ==
  \/ \E s \in Sockets : Admit(s) \/ Reject(s) \/ Disconnect(s)
  \/ \E g \in Gets : Answer(g) \/ Apply(g) \/ LoseGet(g)
  \/ \E t \in Tabs :
       \/ Unmount(t) \/ Deliver(t)
       \/ \E s \in Sockets : Reconnect(t, s) \/ \E g \in Gets : Mount(t, s, g)

Spec == Init /\ [][Next]_vars

-----------------------------------------------------------------------------
(* Properties *)

TypeOK ==
  /\ Online \subseteq Users
  /\ \A u \in Online : presence[u] \in 1..Cardinality(Sockets)
  /\ socket \in [Sockets -> Socket]
  /\ get \in [Gets -> Get]
  /\ tab \in [Tabs -> Tab]

Admitted(u) == {s \in Sockets : socket[s].pc = "admitted" /\ Owner(s) = u}
Active(u) == {s \in Admitted(u) : socket[s].open}

\* Whatever the order of connections, rejections and losses, and however many
\* tabs a user has: no user with an open socket goes offline because another
\* one closed, and the count is that of the open sockets, unless one of the
\* user's was admitted after it had closed, which CountIsActive is about.  And
\* the map has an entry, which is what the snapshot lists, of those users only
\* whose count is not zero.
NobodyIsCountedOut ==
  \A u \in Users :
    /\ Count(u) >= Cardinality(Active(u))
    /\ Admitted(u) = Active(u) => Count(u) = Cardinality(Active(u))
    /\ u \in Online => Count(u) > 0

\* A tab that has heard all its socket was sent shows of each user what the
\* gateway holds, if it has had an event about the user since it connected and
\* since the last snapshot arrived, or that snapshot was taken once it was
\* connected and no event about the user overtook it.
ShownIsTrue ==
  \A t \in Tabs :
    tab[t].mounted /\ Reached(socket[tab[t].socket])
      /\ socket[tab[t].socket].inbox = <<>> =>
        \A u \in tab[t].sure : u \in tab[t].onlineUserIds <=> u \in Online

-----------------------------------------------------------------------------
(* What the repository says of the program and the code does not keep *)

\* realtime.gateway.ts:55: the map holds each user's "active socket count".
CountIsActive == \A u \in Users : Count(u) = Cardinality(Active(u))

=============================================================================
