------------------------------- MODULE Rooms -------------------------------
(***************************************************************************)
(* A ticket page, its connection and the ticket's room                     *)
(* (apps/frontend/src/app/dashboard/tickets/[id]/page.tsx, components/     *)
(* tickets/reply-composer.tsx, apps/backend/src/realtime/                  *)
(* realtime.gateway.ts): who is in the room, and who is shown typing.      *)
(*                                                                         *)
(* One tab is looked at; the typists are other tabs, of whose connections  *)
(* only the events that reach the tab's room are kept.  Messages of one    *)
(* connection arrive in order, or not at all when it breaks.  The gateway  *)
(* starts handlers in order, but ticket:join waits for the database and    *)
(* ticket:leave does not.  What the client emits while it has no           *)
(* connection it buffers and sends on connecting, before it tells the      *)
(* page's listeners (socket.io-client).                                    *)
(***************************************************************************)
EXTENDS Integers, Sequences, FiniteSets, Null

CONSTANTS
  TicketPages,      \* tickets, whose pages the tab visits
  Typists,          \* other users that may write on them
  MaxMoves,         \* bound on the pages mounted
  MaxConnects,      \* bound on the connections made
  MaxEmits          \* bound on the events sent to rooms

\* No page is no ticket's page.
ASSUME RoomsAssumption ==
  /\ NULL \notin TicketPages
  /\ MaxMoves \in Nat /\ MaxConnects \in Nat /\ MaxEmits \in Nat

VARIABLES
  page,             \* the ticket whose page is mounted
  link,             \* the client's side of the connection
  buffer,           \* emitted while there is no connection
  inbox,            \* on the way to the gateway
  conn,             \* the gateway's side: admission, rooms, joins under way
  outbox,           \* on the way to the page
  typingUserIds,    \* whom the page shows typing
  timeouts,         \* typingTimeoutsRef: whose timeout is armed
  composer,         \* per typist: the ticket its typing timeout is armed on
  dropped,          \* tickets whose last join this connection ignored
  overtaken,        \* tickets whose leave ran while a join was waiting
  used              \* what has been used of the bounds

netVars == <<link, buffer, inbox, conn, dropped, overtaken>>
showVars == <<typingUserIds, timeouts>>
roomsVars == <<page, netVars, outbox, showVars, composer, used>>

Message == [kind : {"join", "leave"}, ticket : TicketPages]
RoomEvent == [kind : {"start", "stop", "comment"}, ticket : TicketPages,
              user : Typists]

\* joining: the tickets that are being read.
Conn == [pc : {"gone", "verifying", "admitted"},
         rooms : SUBSET TicketPages, joining : SUBSET TicketPages]

Used == [moves : 0..MaxMoves, connects : 0..MaxConnects, emits : 0..MaxEmits]

Closed == [pc |-> "gone", rooms |-> {}, joining |-> {}]

\* socket.emit
Emit(ms) == IF link = "up" THEN inbox' = inbox \o ms /\ UNCHANGED buffer
                           ELSE buffer' = buffer \o ms /\ UNCHANGED inbox

-----------------------------------------------------------------------------
(* The page's effect *)

Mount ==
  /\ page = NULL /\ used.moves < MaxMoves
  /\ \E t \in TicketPages :
       page' = t /\ Emit(<<[kind |-> "join", ticket |-> t]>>)
  /\ used' = [used EXCEPT !.moves = @ + 1]
  /\ UNCHANGED <<link, conn, dropped, overtaken, outbox, showVars, composer>>

\* Mutant: the cleanup stops the timeouts and leaves what they would clear.
UnmountTimeoutsOnly ==
  /\ page # NULL
  /\ page' = NULL
  /\ Emit(<<[kind |-> "leave", ticket |-> page]>>)
  /\ timeouts' = {}
  /\ UNCHANGED <<link, conn, dropped, overtaken, outbox, typingUserIds,
                 composer, used>>

Unmount ==
  /\ page # NULL
  /\ page' = NULL
  /\ Emit(<<[kind |-> "leave", ticket |-> page]>>)
  /\ timeouts' = {} /\ typingUserIds' = {}
  /\ UNCHANGED <<link, conn, dropped, overtaken, outbox, composer, used>>

-----------------------------------------------------------------------------
(* The connection *)

\* Mutant: the page joins when it mounts and not when it connects.
RejoinOnlyBuffered == buffer

\* joinRoom is a listener of "connect" while the page is mounted.
Rejoin ==
  IF page = NULL THEN buffer
  ELSE Append(buffer, [kind |-> "join", ticket |-> page])

Connect ==
  /\ link = "down" /\ used.connects < MaxConnects
  /\ link' = "up"
  /\ inbox' = Rejoin /\ buffer' = <<>>
  /\ conn' = [Closed EXCEPT !.pc = "verifying"]
  /\ dropped' = {} /\ overtaken' = {}
  /\ used' = [used EXCEPT !.connects = @ + 1]
  /\ UNCHANGED <<page, outbox, showVars, composer>>

\* Mutant: the gateway forgets the user of a broken connection and leaves it
\* in its rooms.
CutKeepsRooms(state) ==
  /\ link' = state
  /\ inbox' = <<>> /\ outbox' = <<>> /\ conn' = [conn EXCEPT !.pc = "gone"]
  /\ dropped' = {} /\ overtaken' = {}
  /\ UNCHANGED <<page, buffer, showVars, composer, used>>

Cut(state) ==
  /\ link' = state
  /\ inbox' = <<>> /\ outbox' = <<>> /\ conn' = Closed
  /\ dropped' = {} /\ overtaken' = {}
  /\ UNCHANGED <<page, buffer, showVars, composer, used>>

Drop == link = "up" /\ Cut("down")

\* handleConnection: the session was found, or the socket is disconnected for
\* good: the client does not reconnect to a server that closed it.
Admit ==
  /\ conn.pc = "verifying"
  /\ conn' = [conn EXCEPT !.pc = "admitted"]
  /\ UNCHANGED <<page, link, buffer, inbox, outbox, showVars, composer,
                 dropped, overtaken, used>>

Reject == conn.pc = "verifying" /\ Cut("refused")

-----------------------------------------------------------------------------
(* The gateway's handlers *)

Received(kind) == inbox # <<>> /\ Head(inbox).kind = kind

\* handleTicketJoin: without a user the message is ignored, otherwise the
\* ticket is read.
HandleJoin ==
  LET t == Head(inbox).ticket IN
  /\ Received("join")
  /\ inbox' = Tail(inbox)
  /\ IF conn.pc = "admitted"
     THEN conn' = [conn EXCEPT !.joining = @ \cup {t}] /\ UNCHANGED dropped
     ELSE dropped' = dropped \cup {t} /\ UNCHANGED conn
  /\ UNCHANGED <<page, link, buffer, outbox, showVars, composer, overtaken,
                 used>>

Joined ==
  /\ \E t \in conn.joining :
       /\ conn' = [conn EXCEPT !.joining = @ \ {t}, !.rooms = @ \cup {t}]
       /\ dropped' = dropped \ {t}
  /\ UNCHANGED <<page, link, buffer, inbox, outbox, showVars, composer,
                 overtaken, used>>

\* handleTicketLeave asks for no user and waits for nothing.
HandleLeave ==
  LET t == Head(inbox).ticket IN
  /\ Received("leave")
  /\ inbox' = Tail(inbox)
  /\ conn' = [conn EXCEPT !.rooms = @ \ {t}]
  /\ overtaken' = IF t \in conn.joining THEN overtaken \cup {t}
                                        ELSE overtaken \ {t}
  /\ UNCHANGED <<page, link, buffer, outbox, showVars, composer, dropped,
                 used>>

-----------------------------------------------------------------------------
(* Typing *)

\* emitToTicket, client.to(room).emit: reaches who is in the room now.
ToRoom(kind, u, t) ==
  /\ used.emits < MaxEmits
  /\ used' = [used EXCEPT !.emits = @ + 1]
  /\ outbox' = IF t \in conn.rooms
               THEN Append(outbox, [kind |-> kind, ticket |-> t, user |-> u])
               ELSE outbox

\* handleBodyChange: only the first key of a burst is told.
Type(u) ==
  /\ composer[u] = NULL
  /\ \E t \in TicketPages : /\ composer' = [composer EXCEPT ![u] = t]
                            /\ ToRoom("start", u, t)
  /\ UNCHANGED <<page, netVars, showVars>>

\* stopTyping: TYPING_IDLE_MS after the last key, on sending, on unmounting.
StopTyping(u) ==
  /\ composer[u] # NULL
  /\ composer' = [composer EXCEPT ![u] = NULL]
  /\ ToRoom("stop", u, composer[u])
  /\ UNCHANGED <<page, netVars, showVars>>

\* The typist's connection breaks first.
StopUnheard(u) ==
  /\ composer[u] # NULL
  /\ composer' = [composer EXCEPT ![u] = NULL]
  /\ UNCHANGED <<page, netVars, showVars, outbox, used>>

Comment(u) ==
  /\ composer[u] = NULL
  /\ \E t \in TicketPages : ToRoom("comment", u, t)
  /\ UNCHANGED <<page, netVars, showVars, composer>>

\* handleTyping, handleComment; events of another ticket are ignored.
Show ==
  LET e == Head(outbox) IN
  /\ outbox # <<>>
  /\ outbox' = Tail(outbox)
  /\ \/ /\ e.ticket # page
        /\ UNCHANGED showVars
     \/ /\ e.ticket = page /\ e.kind = "start"
        /\ typingUserIds' = typingUserIds \cup {e.user}
        /\ timeouts' = timeouts \cup {e.user}
     \/ /\ e.ticket = page /\ e.kind # "start"
        /\ typingUserIds' = typingUserIds \ {e.user}
        /\ timeouts' = timeouts \ {e.user}
  /\ UNCHANGED <<page, netVars, composer, used>>

\* TYPING_STALE_MS after the last start.
Stale ==
  /\ \E u \in timeouts : /\ timeouts' = timeouts \ {u}
                         /\ typingUserIds' = typingUserIds \ {u}
  /\ UNCHANGED <<page, netVars, outbox, composer, used>>

-----------------------------------------------------------------------------
RoomsInit ==
  /\ page = NULL /\ link = "down" /\ buffer = <<>> /\ inbox = <<>>
  /\ conn = Closed /\ outbox = <<>>
  /\ typingUserIds = {} /\ timeouts = {}
  /\ composer = [u \in Typists |-> NULL]
  /\ dropped = {} /\ overtaken = {}
  /\ used = [moves |-> 0, connects |-> 0, emits |-> 0]

RoomsNext ==
  \/ Mount \/ Unmount
  \/ Connect \/ Drop \/ Admit \/ Reject
  \/ HandleJoin \/ Joined \/ HandleLeave
  \/ \E u \in Typists : Type(u) \/ StopTyping(u) \/ StopUnheard(u) \/ Comment(u)
  \/ Show \/ Stale

RoomsSpec == RoomsInit /\ [][RoomsNext]_roomsVars

-----------------------------------------------------------------------------
(* Properties *)

\* Every variable has its type; nothing is on the way where there is no
\* connection, and only an admitted one has rooms.
RoomsTypeOK ==
  /\ page \in TicketPages \cup {NULL} /\ link \in {"down", "up", "refused"}
  /\ buffer \in Seq(Message) /\ inbox \in Seq(Message)
  /\ outbox \in Seq(RoomEvent)
  /\ conn \in Conn
  /\ typingUserIds \subseteq Typists /\ timeouts \subseteq Typists
  /\ composer \in [Typists -> TicketPages \cup {NULL}]
  /\ dropped \subseteq TicketPages /\ overtaken \subseteq TicketPages
  /\ used \in Used
  /\ link = "up" <=> conn.pc # "gone"
  /\ link # "up" => inbox = <<>> /\ outbox = <<>>
  /\ conn.pc # "admitted" => conn.rooms = {} /\ conn.joining = {}

\* A page is in its ticket's room and in no other once the gateway has caught
\* up, however often it mounted, unmounted and reconnected meanwhile, with two
\* exceptions: the gateway ignored the join because it was still verifying the
\* connection, or ran a leave before the join it was to undo.
RoomFollowsPage ==
  conn.pc = "admitted" /\ inbox = <<>> /\ conn.joining = {} =>
    /\ page \in TicketPages \ dropped => page \in conn.rooms
    /\ conn.rooms \subseteq {page} \cup overtaken

\* Whoever is shown typing has a timeout that will end it, and no one is shown
\* on an unmounted page: a lost typing:stop cannot leave the line standing.
TypingWillEnd ==
  /\ typingUserIds \subseteq timeouts
  /\ page = NULL => typingUserIds = {}

=============================================================================
