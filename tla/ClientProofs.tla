---------------------------- MODULE ClientProofs ----------------------------
(***************************************************************************)
(* What holds of the backend's three conversations with its clients, for   *)
(* any number of each: Rooms, a ticket page and the room it should be in;  *)
(* ApiClient, the cookies, tokens and retries of a browser; and Outbox,    *)
(* the events a webhook is told.                                           *)
(*                                                                         *)
(* Of Outbox also that the queue can be worked off: a backlog that falls   *)
(* with each step of a worker and rises only with a new event.             *)
(***************************************************************************)
EXTENDS Clients, Outbox, SequenceTheorems, FiniteSetTheorems, TLAPS

-----------------------------------------------------------------------------
(* Sequences *)

LEMMA Tailed ==
  ASSUME NEW S, NEW ms \in Seq(S), ms # <<>>
  PROVE  /\ Head(ms) \in S /\ Head(ms) = ms[1]
         /\ Tail(ms) \in Seq(S)
         /\ Len(ms) \in Nat /\ Len(ms) > 0 /\ Len(Tail(ms)) = Len(ms) - 1
         /\ \A i \in 1..Len(Tail(ms)) : Tail(ms)[i] = ms[i + 1]
  BY HeadTailProperties, LenProperties, EmptySeq

LEMMA Lengthened ==
  ASSUME NEW S, NEW ms \in Seq(S), NEW m \in S
  PROVE  /\ ms \o <<m>> = Append(ms, m)
         /\ Append(ms, m) \in Seq(S)
         /\ Len(ms) \in Nat /\ Len(Append(ms, m)) = Len(ms) + 1
         /\ \A i \in 1..Len(ms) : Append(ms, m)[i] = ms[i]
         /\ Append(ms, m)[Len(ms) + 1] = m
  BY AppendProperties, AppendIsConcat, LenProperties

-----------------------------------------------------------------------------
(* Rooms: types *)

LEMMA Counting ==
  ASSUME NEW u \in Used
  PROVE  /\ u.moves < MaxMoves => [u EXCEPT !.moves = @ + 1] \in Used
         /\ u.connects < MaxConnects => [u EXCEPT !.connects = @ + 1] \in Used
         /\ u.emits < MaxEmits => [u EXCEPT !.emits = @ + 1] \in Used
  BY RoomsAssumption DEF Used

LEMMA EmitTypes ==
  ASSUME RoomsTypeOK, NEW kind \in {"join", "leave"}, NEW t \in TicketPages,
         Emit(<<[kind |-> kind, ticket |-> t]>>)
  PROVE  /\ buffer' \in Seq(Message) /\ inbox' \in Seq(Message)
         /\ link # "up" => inbox' = inbox
<1> DEFINE m == [kind |-> kind, ticket |-> t]
<1>1. m \in Message
  BY DEF Message
<1>2. buffer \o <<m>> \in Seq(Message) /\ inbox \o <<m>> \in Seq(Message)
  BY <1>1, Lengthened DEF RoomsTypeOK
<1>3. QED
  BY <1>2 DEF Emit, RoomsTypeOK

LEMMA ToRoomTypes ==
  ASSUME RoomsTypeOK, NEW kind \in {"start", "stop", "comment"}, NEW u \in Typists,
         NEW t \in TicketPages, ToRoom(kind, u, t)
  PROVE  /\ outbox' \in Seq(RoomEvent) /\ used' \in Used
         /\ link # "up" => outbox' = outbox
<1> DEFINE e == [kind |-> kind, ticket |-> t, user |-> u]
<1>1. e \in RoomEvent
  BY DEF RoomEvent
<1>2. Append(outbox, e) \in Seq(RoomEvent)
  BY <1>1, Lengthened DEF RoomsTypeOK
<1>3. link # "up" => conn.rooms = {}
  BY DEF RoomsTypeOK
<1>4. outbox' \in Seq(RoomEvent) /\ (link # "up" => outbox' = outbox)
  BY <1>2, <1>3 DEF ToRoom, RoomsTypeOK
<1>5. used' = [used EXCEPT !.emits = @ + 1] /\ used.emits < MaxEmits
  BY DEF ToRoom
<1>6. QED
  BY <1>4, <1>5, Counting DEF RoomsTypeOK

LEMMA ClosedTypes ==
  /\ Closed \in Conn
  /\ Closed.pc = "gone" /\ Closed.rooms = {} /\ Closed.joining = {}
  BY DEF Closed, Conn

LEMMA CutTypes ==
  ASSUME RoomsTypeOK, NEW state \in {"down", "refused"}, Cut(state)
  PROVE  RoomsTypeOK'
  BY ClosedTypes, EmptySeq DEF Cut, RoomsTypeOK, showVars

LEMMA RoomsTypes ==
  ASSUME RoomsTypeOK, [RoomsNext]_roomsVars
  PROVE  RoomsTypeOK'
<1>1. CASE Mount
  <2>1. PICK t \in TicketPages :
          page' = t /\ Emit(<<[kind |-> "join", ticket |-> t]>>)
    BY <1>1 DEF Mount
  <2>2. used' \in Used
    BY <1>1, Counting DEF Mount, RoomsTypeOK
  <2>3. UNCHANGED <<link, conn, dropped, overtaken, outbox, showVars, composer>>
    BY <1>1 DEF Mount
  <2>4. buffer' \in Seq(Message) /\ inbox' \in Seq(Message) /\ (link # "up" => inbox' = inbox)
    BY <2>1, EmitTypes
  <2> QED
    BY <2>1, <2>2, <2>3, <2>4 DEF RoomsTypeOK, showVars
<1>2. CASE Unmount
  <2>1. page \in TicketPages /\ Emit(<<[kind |-> "leave", ticket |-> page]>>)
    BY <1>2 DEF Unmount, RoomsTypeOK
  <2> QED
    BY <1>2, <2>1, EmitTypes DEF Unmount, RoomsTypeOK
<1>3. CASE Connect
  <2>1. inbox' \in Seq(Message)
    <3>1. CASE page = NULL
      BY <1>3, <3>1 DEF Connect, Rejoin, RoomsTypeOK
    <3>2. CASE page # NULL
      <4>1. [kind |-> "join", ticket |-> page] \in Message
        BY <3>2 DEF Message, RoomsTypeOK
      <4> QED
        BY <1>3, <3>2, <4>1, Lengthened DEF Connect, Rejoin, RoomsTypeOK
    <3> QED
      BY <3>1, <3>2
  <2>2. /\ conn' \in Conn
        /\ conn'.pc = "verifying" /\ conn'.rooms = {} /\ conn'.joining = {}
    BY <1>3 DEF Connect, Closed, Conn
  <2>3. used' \in Used
    BY <1>3, Counting DEF Connect, RoomsTypeOK
  <2> QED
    BY <1>3, <2>1, <2>2, <2>3, EmptySeq DEF Connect, RoomsTypeOK, showVars
<1>4. CASE Drop \/ Reject
  BY <1>4, CutTypes DEF Drop, Reject
<1>5. CASE Admit
  <2>1. /\ conn' \in Conn
        /\ conn'.pc = "admitted"
    BY <1>5 DEF Admit, RoomsTypeOK, Conn
  <2> QED
    BY <1>5, <2>1 DEF Admit, RoomsTypeOK, showVars
<1>6. CASE HandleJoin \/ HandleLeave
  <2>1. inbox # <<>> /\ inbox \in Seq(Message) /\ inbox' = Tail(inbox)
    BY <1>6 DEF HandleJoin, HandleLeave, Received, RoomsTypeOK
  <2>2. Head(inbox) \in Message /\ inbox' \in Seq(Message)
    BY <2>1, Tailed
  <2>3. Head(inbox).ticket \in TicketPages
    BY <2>2 DEF Message
  <2>4. conn \in Conn /\ (conn.pc # "admitted" => conn.rooms = {} /\ conn.joining = {})
    BY DEF RoomsTypeOK
  <2>5. /\ conn' \in Conn /\ conn'.pc = conn.pc
        /\ conn.pc # "admitted" => conn'.rooms = {} /\ conn'.joining = {}
        /\ dropped' \subseteq TicketPages /\ overtaken' \subseteq TicketPages
    <3>1. CASE HandleJoin
      BY <2>3, <2>4, <3>1 DEF HandleJoin, RoomsTypeOK, Conn
    <3>2. CASE HandleLeave
      BY <2>3, <2>4, <3>2 DEF HandleLeave, RoomsTypeOK, Conn
    <3> QED
      BY <1>6, <3>1, <3>2
  <2>6. UNCHANGED <<page, link, buffer, outbox, showVars, composer, used>>
    BY <1>6 DEF HandleJoin, HandleLeave
  <2> QED
    BY <2>1, <2>2, <2>5, <2>6 DEF RoomsTypeOK, showVars
<1>7. CASE Joined
  <2>1. PICK t \in conn.joining :
          /\ conn' = [conn EXCEPT !.joining = @ \ {t}, !.rooms = @ \cup {t}]
          /\ dropped' = dropped \ {t}
    BY <1>7 DEF Joined
  <2>2. /\ conn' \in Conn
        /\ conn'.pc = conn.pc /\ conn.pc = "admitted"
    BY <2>1 DEF RoomsTypeOK, Conn
  <2> QED
    BY <1>7, <2>1, <2>2 DEF Joined, RoomsTypeOK, showVars
<1>8. CASE \E u \in Typists : Type(u) \/ StopTyping(u) \/ StopUnheard(u) \/ Comment(u)
  <2>1. PICK u \in Typists : Type(u) \/ StopTyping(u) \/ StopUnheard(u) \/ Comment(u)
    BY <1>8
  <2>2. CASE Type(u)
    <3>1. PICK t \in TicketPages : composer' = [composer EXCEPT ![u] = t]
                                   /\ ToRoom("start", u, t)
      BY <2>2 DEF Type
    <3> QED
      BY <2>2, <3>1, ToRoomTypes DEF Type, RoomsTypeOK, netVars, showVars
  <2>3. CASE StopTyping(u)
    <3>1. composer[u] \in TicketPages
      BY <2>3 DEF StopTyping, RoomsTypeOK
    <3> QED
      BY <2>3, <3>1, ToRoomTypes DEF StopTyping, RoomsTypeOK, netVars, showVars
  <2>4. CASE StopUnheard(u)
    BY <2>4 DEF StopUnheard, RoomsTypeOK, netVars, showVars
  <2>5. CASE Comment(u)
    BY <2>5, ToRoomTypes DEF Comment, RoomsTypeOK, netVars, showVars
  <2> QED
    BY <2>1, <2>2, <2>3, <2>4, <2>5
<1>9. CASE Show
  <2>1. outbox # <<>> /\ outbox \in Seq(RoomEvent) /\ outbox' = Tail(outbox)
    BY <1>9 DEF Show, RoomsTypeOK
  <2>2. Head(outbox) \in RoomEvent /\ outbox' \in Seq(RoomEvent)
    BY <2>1, Tailed
  <2>3. Head(outbox).user \in Typists
    BY <2>2 DEF RoomEvent
  <2>4. typingUserIds' \subseteq Typists /\ timeouts' \subseteq Typists
    BY <1>9, <2>3 DEF Show, RoomsTypeOK, showVars
  <2>5. UNCHANGED <<page, netVars, composer, used>>
    BY <1>9 DEF Show
  <2> QED
    BY <2>1, <2>2, <2>4, <2>5 DEF RoomsTypeOK, netVars
<1>10. CASE Stale
  BY <1>10 DEF Stale, RoomsTypeOK, netVars
<1>11. CASE UNCHANGED roomsVars
  BY <1>11 DEF roomsVars, netVars, showVars, RoomsTypeOK
<1>12. QED
  BY <1>1, <1>2, <1>3, <1>4, <1>5, <1>6, <1>7, <1>8, <1>9, <1>10, <1>11 DEF RoomsNext

-----------------------------------------------------------------------------
(* Rooms: who is shown typing *)

LEMMA TypingStep ==
  ASSUME RoomsTypeOK, TypingWillEnd, [RoomsNext]_roomsVars
  PROVE  TypingWillEnd'
<1>1. CASE Show
  <2>1. Head(outbox).ticket \in TicketPages
    <3>1. outbox # <<>> /\ outbox \in Seq(RoomEvent)
      BY <1>1 DEF Show, RoomsTypeOK
    <3>2. Head(outbox) \in RoomEvent
      BY <3>1, Tailed
    <3> QED
      BY <3>2 DEF RoomEvent
  <2>2. page = NULL => UNCHANGED showVars
    BY <1>1, <2>1, RoomsAssumption DEF Show
  <2>3. typingUserIds' \subseteq timeouts' /\ page' = page
    BY <1>1 DEF Show, TypingWillEnd, showVars
  <2> QED
    BY <2>2, <2>3 DEF TypingWillEnd, showVars
<1>2. CASE Mount \/ Unmount \/ Stale
  BY <1>2 DEF Mount, Unmount, Stale, TypingWillEnd, showVars
<1>3. CASE Connect \/ Drop \/ Admit \/ Reject
  BY <1>3 DEF Connect, Drop, Admit, Reject, Cut, TypingWillEnd, showVars
<1>4. CASE HandleJoin \/ Joined \/ HandleLeave
  BY <1>4 DEF HandleJoin, Joined, HandleLeave, TypingWillEnd, showVars
<1>5. CASE \E u \in Typists : Type(u) \/ StopTyping(u) \/ StopUnheard(u) \/ Comment(u)
  BY <1>5 DEF Type, StopTyping, StopUnheard, Comment, TypingWillEnd, showVars
<1>6. CASE UNCHANGED roomsVars
  BY <1>6 DEF roomsVars, showVars, TypingWillEnd
<1>7. QED
  BY <1>1, <1>2, <1>3, <1>4, <1>5, <1>6 DEF RoomsNext

-----------------------------------------------------------------------------
(***************************************************************************)
(* Rooms: which rooms the connection is in.  The last message about the    *)
(* mounted page is its join, and every other ticket that was joined is     *)
(* left after that, so the gateway comes to the right rooms whatever waits *)
(* in between.                                                             *)
(***************************************************************************)

Says(kind, t) == [kind |-> kind, ticket |-> t]

Leaves(ms, t) == \E j \in 1..Len(ms) : ms[j] = Says("leave", t)

\* Every join of a ticket other than p is followed by the ticket's leave.
Undone(ms, p) ==
  \A i \in 1..Len(ms) : ms[i].kind = "join" /\ ms[i].ticket # p =>
    \E j \in 1..Len(ms) : j > i /\ ms[j] = Says("leave", ms[i].ticket)

PageIsJoined ==
  link = "up" /\ page # NULL =>
    IF inbox = <<>> THEN page \in conn.rooms \cup conn.joining \cup dropped
                    ELSE inbox[Len(inbox)] = Says("join", page)

OthersAreLeft ==
  /\ Undone(inbox, page) /\ Undone(buffer, page)
  /\ \A t \in conn.rooms \cup conn.joining :
       t # page => t \in overtaken \/ Leaves(inbox, t)

RoomsIInv ==
  /\ RoomsTypeOK /\ TypingWillEnd
  /\ link = "up" => buffer = <<>>
  /\ PageIsJoined /\ OthersAreLeft

LEMMA JoinAdded ==
  ASSUME NEW ms \in Seq(Message), NEW p, NEW t \in TicketPages, Undone(ms, p),
         p \in {NULL, t}
  PROVE  /\ Undone(Append(ms, Says("join", t)), t)
         /\ \A u : Leaves(ms, u) => Leaves(Append(ms, Says("join", t)), u)
<1> DEFINE m == Says("join", t)
           new == Append(ms, m)
<1>1. m \in Message /\ m.kind = "join" /\ m.ticket = t
  BY DEF Says, Message
<1>2. /\ Len(ms) \in Nat /\ Len(new) = Len(ms) + 1
      /\ \A i \in 1..Len(ms) : new[i] = ms[i]
      /\ new[Len(ms) + 1] = m
  BY <1>1, Lengthened
<1>3. \A i \in 1..Len(ms) : ms[i] \in Message
  BY LenProperties, ElementOfSeq
<1> HIDE DEF m, new
<1>4. ASSUME NEW i \in 1..Len(new), new[i].kind = "join", new[i].ticket # t
      PROVE  \E j \in 1..Len(new) : j > i /\ new[j] = Says("leave", new[i].ticket)
  <2>1. i \in 1..Len(ms) /\ new[i] = ms[i]
    BY <1>1, <1>2, <1>4
  <2>2. ms[i].ticket \in TicketPages
    BY <1>3, <2>1 DEF Message
  <2>3. ms[i].ticket # p
    BY <1>4, <2>1, <2>2, RoomsAssumption
  <2>4. PICK j \in 1..Len(ms) : j > i /\ ms[j] = Says("leave", ms[i].ticket)
    BY <1>4, <2>1, <2>3 DEF Undone
  <2> QED
    BY <1>2, <2>1, <2>4
<1>5. ASSUME NEW u, Leaves(ms, u)
      PROVE  Leaves(new, u)
  BY <1>2, <1>5 DEF Leaves
<1>6. Undone(new, t)
  BY <1>4 DEF Undone
<1>7. QED
  BY <1>5, <1>6 DEF m, new

LEMMA LeaveAdded ==
  ASSUME NEW ms \in Seq(Message), NEW p \in TicketPages, Undone(ms, p)
  PROVE  /\ Undone(Append(ms, Says("leave", p)), NULL)
         /\ Leaves(Append(ms, Says("leave", p)), p)
         /\ \A u : Leaves(ms, u) => Leaves(Append(ms, Says("leave", p)), u)
<1> DEFINE m == Says("leave", p)
           new == Append(ms, m)
<1>1. m \in Message /\ m.kind = "leave" /\ m = Says("leave", p)
  BY DEF Says, Message
<1>2. /\ Len(ms) \in Nat /\ Len(new) = Len(ms) + 1
      /\ \A i \in 1..Len(ms) : new[i] = ms[i]
      /\ new[Len(ms) + 1] = m
  BY <1>1, Lengthened
<1> HIDE DEF m, new
<1>3. ASSUME NEW i \in 1..Len(new), new[i].kind = "join"
      PROVE  \E j \in 1..Len(new) : j > i /\ new[j] = Says("leave", new[i].ticket)
  <2>1. i \in 1..Len(ms) /\ new[i] = ms[i]
    BY <1>1, <1>2, <1>3
  <2>2. CASE ms[i].ticket = p
    BY <1>1, <1>2, <2>1, <2>2
  <2>3. CASE ms[i].ticket # p
    <3>1. PICK j \in 1..Len(ms) : j > i /\ ms[j] = Says("leave", ms[i].ticket)
      BY <1>3, <2>1, <2>3 DEF Undone
    <3> QED
      BY <1>2, <2>1, <3>1
  <2> QED
    BY <2>2, <2>3
<1>4. Undone(new, NULL)
  BY <1>3 DEF Undone
<1>5. Leaves(new, p)
  BY <1>1, <1>2 DEF Leaves
<1>6. ASSUME NEW u, Leaves(ms, u)
      PROVE  Leaves(new, u)
  BY <1>2, <1>6 DEF Leaves
<1>7. QED
  BY <1>4, <1>5, <1>6 DEF m, new

\* The first message is handled.
LEMMA FirstHandled ==
  ASSUME NEW ms \in Seq(Message), ms # <<>>, NEW p, Undone(ms, p)
  PROVE  /\ Undone(Tail(ms), p)
         /\ \A u : Leaves(ms, u) => Head(ms) = Says("leave", u) \/ Leaves(Tail(ms), u)
         /\ Head(ms).kind = "join" /\ Head(ms).ticket # p => Leaves(Tail(ms), Head(ms).ticket)
         /\ IF Tail(ms) = <<>> THEN Head(ms) = ms[Len(ms)]
                               ELSE Tail(ms)[Len(Tail(ms))] = ms[Len(ms)]
<1> DEFINE new == Tail(ms)
<1>1. /\ Head(ms) = ms[1] /\ new \in Seq(Message)
      /\ Len(ms) \in Nat /\ Len(ms) > 0 /\ Len(new) = Len(ms) - 1
      /\ \A i \in 1..Len(new) : new[i] = ms[i + 1]
  BY Tailed
<1> HIDE DEF new
<1>2. ASSUME NEW i \in 1..Len(new), new[i].kind = "join", new[i].ticket # p
      PROVE  \E j \in 1..Len(new) : j > i /\ new[j] = Says("leave", new[i].ticket)
  <2>1. i + 1 \in 1..Len(ms) /\ new[i] = ms[i + 1]
    BY <1>1
  <2>2. PICK j \in 1..Len(ms) : j > i + 1 /\ ms[j] = Says("leave", new[i].ticket)
    BY <1>2, <2>1 DEF Undone
  <2>3. j - 1 \in 1..Len(new) /\ j - 1 > i /\ new[j - 1] = ms[j]
    BY <1>1, <2>1, <2>2
  <2> QED
    BY <2>2, <2>3
<1>3. ASSUME NEW u, NEW j \in 1..Len(ms), ms[j] = Says("leave", u), j > 1
      PROVE  Leaves(new, u)
  <2>1. j - 1 \in 1..Len(new) /\ new[j - 1] = ms[j]
    BY <1>1, <1>3
  <2> QED
    BY <1>3, <2>1 DEF Leaves
<1>4. ASSUME NEW u, Leaves(ms, u)
      PROVE  Head(ms) = Says("leave", u) \/ Leaves(new, u)
  <2>1. PICK j \in 1..Len(ms) : ms[j] = Says("leave", u)
    BY <1>4 DEF Leaves
  <2>2. CASE j = 1
    BY <1>1, <2>1, <2>2
  <2>3. CASE j > 1
    BY <1>3, <2>1, <2>3
  <2> QED
    BY <1>1, <2>1, <2>2, <2>3
<1>5. ASSUME Head(ms).kind = "join", Head(ms).ticket # p
      PROVE  Leaves(new, Head(ms).ticket)
  <2>1. 1 \in 1..Len(ms)
    BY <1>1
  <2>2. PICK j \in 1..Len(ms) : j > 1 /\ ms[j] = Says("leave", ms[1].ticket)
    BY <1>1, <1>5, <2>1 DEF Undone
  <2> QED
    BY <1>1, <1>3, <2>2
<1>6. IF new = <<>> THEN Head(ms) = ms[Len(ms)] ELSE new[Len(new)] = ms[Len(ms)]
  <2>1. CASE new = <<>>
    <3>1. Len(new) = 0
      BY <2>1
    <3>2. Len(ms) = 1
      BY <1>1, <3>1
    <3> QED
      BY <1>1, <2>1, <3>2
  <2>2. CASE new # <<>>
    <3>1. Len(new) \in Nat /\ Len(new) # 0
      BY <1>1, <2>2, EmptySeq, LenProperties
    <3>2. Len(new) \in 1..Len(new) /\ Len(new) + 1 = Len(ms)
      BY <1>1, <3>1
    <3>3. new[Len(new)] = ms[Len(new) + 1]
      BY <1>1, <3>2
    <3> QED
      BY <2>2, <3>2, <3>3
  <2> QED
    BY <2>1, <2>2
<1>7. Undone(new, p)
  BY <1>2 DEF Undone
<1>8. QED
  BY <1>4, <1>5, <1>6, <1>7 DEF new

LEMMA MountStep ==
  ASSUME RoomsIInv, Mount
  PROVE  (link = "up" => buffer = <<>>)' /\ PageIsJoined' /\ OthersAreLeft'
<1>1. PICK t \in TicketPages : page' = t /\ Emit(<<Says("join", t)>>)
  BY DEF Mount, Says
<1>2. /\ page = NULL /\ t # NULL /\ UNCHANGED <<link, conn, dropped, overtaken>>
      /\ buffer \in Seq(Message) /\ inbox \in Seq(Message)
      /\ Undone(buffer, NULL) /\ Undone(inbox, NULL) /\ Says("join", t) \in Message
      /\ \A u \in conn.rooms \cup conn.joining : u # NULL
  BY RoomsAssumption DEF Mount, RoomsIInv, RoomsTypeOK, OthersAreLeft, Says, Message, Conn
<1>3. CASE link = "up"
  <2>1. inbox' = Append(inbox, Says("join", t)) /\ buffer' = buffer /\ buffer = <<>>
    BY <1>1, <1>2, <1>3, Lengthened DEF Emit, RoomsIInv
  <2>2. inbox' # <<>> /\ inbox'[Len(inbox')] = Says("join", t)
    BY <1>2, <2>1, Lengthened, AppendProperties
  <2>3. Undone(inbox', t) /\ \A u : Leaves(inbox, u) => Leaves(inbox', u)
    BY <1>2, <2>1, JoinAdded
  <2>4. Undone(buffer', t)
    BY <2>1 DEF Undone
  <2>5. \A u \in conn.rooms \cup conn.joining : u \in overtaken \/ Leaves(inbox', u)
    BY <1>2, <2>3 DEF RoomsIInv, OthersAreLeft
  <2> QED
    BY <1>1, <1>2, <2>1, <2>2, <2>3, <2>4, <2>5 DEF PageIsJoined, OthersAreLeft
<1>4. CASE link # "up"
  <2>1. /\ buffer' = Append(buffer, Says("join", t)) /\ inbox' = inbox /\ inbox = <<>>
        /\ conn.rooms = {} /\ conn.joining = {}
    BY <1>1, <1>2, <1>4, Lengthened DEF Emit, RoomsIInv, RoomsTypeOK
  <2>2. Undone(buffer', t)
    BY <1>2, <2>1, JoinAdded
  <2>3. Undone(inbox', t)
    BY <2>1 DEF Undone
  <2> QED
    BY <1>1, <1>2, <1>4, <2>1, <2>2, <2>3 DEF PageIsJoined, OthersAreLeft
<1>5. QED
  BY <1>3, <1>4

LEMMA UnmountStep ==
  ASSUME RoomsIInv, Unmount
  PROVE  (link = "up" => buffer = <<>>)' /\ PageIsJoined' /\ OthersAreLeft'
<1>1. PICK p \in TicketPages : p = page
  BY DEF Unmount, RoomsIInv, RoomsTypeOK
<1>2. /\ page' = NULL /\ Emit(<<Says("leave", p)>>)
      /\ UNCHANGED <<link, conn, dropped, overtaken>>
  BY <1>1 DEF Unmount, Says
<1>3. /\ buffer \in Seq(Message) /\ inbox \in Seq(Message) /\ Says("leave", p) \in Message
      /\ Undone(buffer, p) /\ Undone(inbox, p)
  BY <1>1 DEF RoomsIInv, RoomsTypeOK, OthersAreLeft, Says, Message
<1>4. CASE link = "up"
  <2>1. inbox' = Append(inbox, Says("leave", p)) /\ buffer' = buffer /\ buffer = <<>>
    BY <1>2, <1>3, <1>4, Lengthened DEF Emit, RoomsIInv
  <2>2. /\ Undone(inbox', NULL) /\ Leaves(inbox', p)
        /\ \A u : Leaves(inbox, u) => Leaves(inbox', u)
    BY <1>3, <2>1, LeaveAdded
  <2>3. Undone(buffer', NULL)
    BY <2>1 DEF Undone
  <2>4. \A u \in conn.rooms \cup conn.joining : u \in overtaken \/ Leaves(inbox', u)
    BY <1>1, <2>2 DEF RoomsIInv, OthersAreLeft
  <2> QED
    BY <1>2, <2>1, <2>2, <2>3, <2>4 DEF PageIsJoined, OthersAreLeft
<1>5. CASE link # "up"
  <2>1. /\ buffer' = Append(buffer, Says("leave", p)) /\ inbox' = inbox /\ inbox = <<>>
        /\ conn.rooms = {} /\ conn.joining = {}
    BY <1>2, <1>3, <1>5, Lengthened DEF Emit, RoomsIInv, RoomsTypeOK
  <2>2. Undone(buffer', NULL)
    BY <1>3, <2>1, LeaveAdded
  <2>3. Undone(inbox', NULL)
    BY <2>1 DEF Undone
  <2> QED
    BY <1>2, <1>5, <2>1, <2>2, <2>3 DEF PageIsJoined, OthersAreLeft
<1>6. QED
  BY <1>4, <1>5

LEMMA ConnectStep ==
  ASSUME RoomsIInv, Connect
  PROVE  (link = "up" => buffer = <<>>)' /\ PageIsJoined' /\ OthersAreLeft'
<1>1. /\ page' = page /\ inbox' = Rejoin /\ buffer' = <<>>
      /\ conn'.rooms = {} /\ conn'.joining = {}
  BY DEF Connect, Closed
<1>2. buffer \in Seq(Message) /\ Undone(buffer, page)
  BY DEF RoomsIInv, RoomsTypeOK, OthersAreLeft
<1>3. Undone(buffer', page)
  BY <1>1 DEF Undone
<1>4. CASE page = NULL
  BY <1>1, <1>2, <1>3, <1>4 DEF Rejoin, PageIsJoined, OthersAreLeft
<1>5. CASE page # NULL
  <2>1. page \in TicketPages /\ Says("join", page) \in Message
    BY <1>5 DEF RoomsIInv, RoomsTypeOK, Says, Message
  <2>2. inbox' = Append(buffer, Says("join", page))
    BY <1>1, <1>5 DEF Rejoin, Says
  <2>3. inbox' # <<>> /\ inbox'[Len(inbox')] = Says("join", page)
    BY <1>2, <2>1, <2>2, Lengthened, AppendProperties
  <2>4. Undone(inbox', page)
    BY <1>2, <2>1, <2>2, JoinAdded
  <2> QED
    BY <1>1, <1>3, <2>3, <2>4 DEF PageIsJoined, OthersAreLeft
<1>6. QED
  BY <1>4, <1>5

LEMMA CutStep ==
  ASSUME RoomsIInv, NEW state \in {"down", "refused"}, Cut(state)
  PROVE  (link = "up" => buffer = <<>>)' /\ PageIsJoined' /\ OthersAreLeft'
<1>1. /\ page' = page /\ inbox' = <<>> /\ buffer' = buffer /\ link' # "up"
      /\ conn'.rooms = {} /\ conn'.joining = {}
  BY ClosedTypes DEF Cut
<1>2. Undone(inbox', page) /\ Undone(buffer', page)
  BY <1>1 DEF Undone, RoomsIInv, OthersAreLeft
<1>3. QED
  BY <1>1, <1>2 DEF PageIsJoined, OthersAreLeft

LEMMA HandleJoinStep ==
  ASSUME RoomsIInv, HandleJoin
  PROVE  (link = "up" => buffer = <<>>)' /\ PageIsJoined' /\ OthersAreLeft'
<1>1. PICK m \in Message : m = Head(inbox)
  BY Tailed DEF HandleJoin, Received, RoomsIInv, RoomsTypeOK
<1>2. /\ inbox \in Seq(Message) /\ inbox # <<>> /\ inbox' = Tail(inbox)
      /\ m.kind = "join" /\ m = Says("join", m.ticket)
      /\ Undone(inbox, page) /\ Undone(buffer, page)
      /\ UNCHANGED <<page, link, buffer, overtaken>>
  BY <1>1 DEF HandleJoin, Received, RoomsIInv, RoomsTypeOK, OthersAreLeft, Message, Says
<1>3. /\ conn'.rooms = conn.rooms
      /\ conn'.joining \cup dropped' = conn.joining \cup dropped \cup {m.ticket}
      /\ conn'.joining \subseteq conn.joining \cup {m.ticket}
  BY <1>1 DEF HandleJoin, RoomsIInv, RoomsTypeOK, Conn
<1>4. /\ Undone(inbox', page)
      /\ \A u : Leaves(inbox, u) => m = Says("leave", u) \/ Leaves(inbox', u)
      /\ m.ticket # page => Leaves(inbox', m.ticket)
      /\ IF inbox' = <<>> THEN m = inbox[Len(inbox)]
                          ELSE inbox'[Len(inbox')] = inbox[Len(inbox)]
  BY <1>1, <1>2, FirstHandled
<1>5. \A u : m # Says("leave", u)
  BY <1>2 DEF Says
<1>6. \A u \in (conn'.rooms \cup conn'.joining) : u # page =>
        u \in overtaken \/ Leaves(inbox', u)
  BY <1>3, <1>4, <1>5 DEF RoomsIInv, OthersAreLeft
<1>7. OthersAreLeft'
  BY <1>2, <1>4, <1>6 DEF OthersAreLeft
<1>8. PageIsJoined'
  <2>1. ASSUME link = "up", page # NULL
        PROVE  IF inbox' = <<>> THEN page \in conn'.rooms \cup conn'.joining \cup dropped'
                                ELSE inbox'[Len(inbox')] = Says("join", page)
    <3>1. inbox[Len(inbox)] = Says("join", page)
      BY <1>2, <2>1 DEF RoomsIInv, PageIsJoined
    <3>2. CASE inbox' = <<>>
      <4>1. m.ticket = page
        BY <1>4, <3>1, <3>2 DEF Says
      <4> QED
        BY <1>3, <3>2, <4>1
    <3> QED
      BY <1>4, <3>1, <3>2
  <2> QED
    BY <1>2, <2>1 DEF PageIsJoined
<1>9. QED
  BY <1>2, <1>7, <1>8 DEF RoomsIInv

LEMMA HandleLeaveStep ==
  ASSUME RoomsIInv, HandleLeave
  PROVE  (link = "up" => buffer = <<>>)' /\ PageIsJoined' /\ OthersAreLeft'
<1>1. PICK m \in Message : m = Head(inbox)
  BY Tailed DEF HandleLeave, Received, RoomsIInv, RoomsTypeOK
<1>2. /\ inbox \in Seq(Message) /\ inbox # <<>> /\ inbox' = Tail(inbox)
      /\ m.kind = "leave"
      /\ Undone(inbox, page) /\ Undone(buffer, page)
      /\ UNCHANGED <<page, link, buffer, dropped>>
  BY <1>1 DEF HandleLeave, Received, RoomsIInv, RoomsTypeOK, OthersAreLeft
<1>3. /\ conn'.rooms = conn.rooms \ {m.ticket} /\ conn'.joining = conn.joining
      /\ overtaken' = IF m.ticket \in conn.joining THEN overtaken \cup {m.ticket}
                                                   ELSE overtaken \ {m.ticket}
  BY <1>1 DEF HandleLeave, RoomsIInv, RoomsTypeOK, Conn
<1>4. /\ Undone(inbox', page)
      /\ \A u : Leaves(inbox, u) => m = Says("leave", u) \/ Leaves(inbox', u)
      /\ IF inbox' = <<>> THEN m = inbox[Len(inbox)]
                          ELSE inbox'[Len(inbox')] = inbox[Len(inbox)]
  BY <1>1, <1>2, FirstHandled
<1>5. ASSUME NEW u \in conn'.rooms \cup conn'.joining, u # page
      PROVE  u \in overtaken' \/ Leaves(inbox', u)
  <2>1. CASE u = m.ticket
    BY <1>3, <1>5, <2>1
  <2>2. CASE u # m.ticket
    <3>1. m # Says("leave", u)
      BY <2>2 DEF Says
    <3>2. u \in overtaken \/ Leaves(inbox, u)
      BY <1>3, <1>5 DEF RoomsIInv, OthersAreLeft
    <3> QED
      BY <1>3, <1>4, <2>2, <3>1, <3>2
  <2> QED
    BY <2>1, <2>2
<1>6. OthersAreLeft'
  BY <1>2, <1>4, <1>5 DEF OthersAreLeft
<1>7. PageIsJoined'
  <2>1. ASSUME link = "up", page # NULL
        PROVE  inbox' # <<>> /\ inbox'[Len(inbox')] = Says("join", page)
    <3>1. inbox[Len(inbox)] = Says("join", page)
      BY <1>2, <2>1 DEF RoomsIInv, PageIsJoined
    <3>2. m # Says("join", page)
      BY <1>2 DEF Says
    <3> QED
      BY <1>4, <3>1, <3>2
  <2> QED
    BY <1>2, <2>1 DEF PageIsJoined
<1>8. QED
  BY <1>2, <1>6, <1>7 DEF RoomsIInv

LEMMA JoinedStep ==
  ASSUME RoomsIInv, Joined
  PROVE  (link = "up" => buffer = <<>>)' /\ PageIsJoined' /\ OthersAreLeft'
<1>1. PICK t \in conn.joining :
        /\ conn' = [conn EXCEPT !.joining = @ \ {t}, !.rooms = @ \cup {t}]
        /\ dropped' = dropped \ {t}
  BY DEF Joined
<1>2. UNCHANGED <<page, link, buffer, inbox, overtaken>>
  BY DEF Joined
<1>3. /\ conn'.rooms = conn.rooms \cup {t} /\ conn'.joining = conn.joining \ {t}
  BY <1>1 DEF RoomsIInv, RoomsTypeOK, Conn
<1>4. conn'.rooms \cup conn'.joining = conn.rooms \cup conn.joining
  BY <1>1, <1>3
<1>5. PageIsJoined'
  BY <1>1, <1>2, <1>3 DEF RoomsIInv, PageIsJoined
<1>6. OthersAreLeft'
  BY <1>2, <1>4 DEF RoomsIInv, OthersAreLeft
<1>7. QED
  BY <1>2, <1>5, <1>6 DEF RoomsIInv

\* Nothing of the connection or the page moves.
LEMMA ElsewhereStep ==
  ASSUME RoomsIInv, UNCHANGED <<page, link, buffer, inbox, dropped, overtaken>>,
         conn'.rooms = conn.rooms, conn'.joining = conn.joining
  PROVE  (link = "up" => buffer = <<>>)' /\ PageIsJoined' /\ OthersAreLeft'
<1>1. PageIsJoined'
  BY DEF RoomsIInv, PageIsJoined
<1>2. OthersAreLeft'
  BY DEF RoomsIInv, OthersAreLeft
<1>3. QED
  BY <1>1, <1>2 DEF RoomsIInv

LEMMA RoomsStep ==
  ASSUME RoomsIInv, [RoomsNext]_roomsVars
  PROVE  RoomsIInv'
<1>1. RoomsTypeOK' /\ TypingWillEnd'
  BY RoomsTypes, TypingStep DEF RoomsIInv
<1>2. (link = "up" => buffer = <<>>)' /\ PageIsJoined' /\ OthersAreLeft'
  <2>1. CASE Mount \/ Unmount
    BY <2>1, MountStep, UnmountStep
  <2>2. CASE Connect \/ Drop \/ Reject
    BY <2>2, ConnectStep, CutStep DEF Drop, Reject
  <2>3. CASE Admit
    <3>1. conn'.rooms = conn.rooms /\ conn'.joining = conn.joining
      BY <2>3 DEF Admit, RoomsIInv, RoomsTypeOK, Conn
    <3> QED
      BY <2>3, <3>1, ElsewhereStep DEF Admit
  <2>4. CASE HandleJoin \/ Joined \/ HandleLeave
    BY <2>4, HandleJoinStep, JoinedStep, HandleLeaveStep
  <2>5. CASE \E u \in Typists : Type(u) \/ StopTyping(u) \/ StopUnheard(u) \/ Comment(u)
    BY <2>5, ElsewhereStep DEF Type, StopTyping, StopUnheard, Comment, netVars
  <2>6. CASE Show \/ Stale
    BY <2>6, ElsewhereStep DEF Show, Stale, netVars
  <2>7. CASE UNCHANGED roomsVars
    BY <2>7, ElsewhereStep DEF roomsVars, netVars
  <2>8. QED
    BY <2>1, <2>2, <2>3, <2>4, <2>5, <2>6, <2>7 DEF RoomsNext
<1>3. QED
  BY <1>1, <1>2 DEF RoomsIInv

LEMMA RoomsBegin ==
  ASSUME RoomsInit
  PROVE  RoomsIInv
<1>1. buffer = <<>> /\ inbox = <<>> /\ outbox = <<>> /\ link = "down" /\ page = NULL
  BY DEF RoomsInit
<1>2. RoomsTypeOK
  BY <1>1, ClosedTypes, EmptySeq, RoomsAssumption DEF RoomsInit, RoomsTypeOK, Used
<1>3. TypingWillEnd /\ PageIsJoined
  BY <1>1 DEF RoomsInit, TypingWillEnd, PageIsJoined
<1>4. OthersAreLeft
  BY <1>1, ClosedTypes DEF RoomsInit, OthersAreLeft, Undone
<1>5. QED
  BY <1>1, <1>2, <1>3, <1>4 DEF RoomsIInv

\* The inductive invariant of page, connection and room: the joins and leaves
\* that are on their way make of the room what the page asks for.
THEOREM RoomsInvariance == RoomsSpec => []RoomsIInv
<1>1. RoomsInit => RoomsIInv
  BY RoomsBegin
<1>2. RoomsIInv /\ [RoomsNext]_roomsVars => RoomsIInv'
  BY RoomsStep
<1>3. QED
  BY <1>1, <1>2, PTL DEF RoomsSpec

\* The variables keep their types, and a connection that is gone or not admitted
\* has no rooms and no messages.
THEOREM RoomsTypeCorrect == RoomsSpec => []RoomsTypeOK
<1>1. RoomsIInv => RoomsTypeOK
  BY DEF RoomsIInv
<1>2. QED
  BY <1>1, RoomsInvariance, PTL

\* Whatever is lost, whoever the page shows typing has a timeout
\* (TYPING_STALE_MS) that will end it.
THEOREM TypingEnds == RoomsSpec => []TypingWillEnd
<1>1. RoomsIInv => TypingWillEnd
  BY DEF RoomsIInv
<1>2. QED
  BY <1>1, RoomsInvariance, PTL

\* Once the gateway has handled what was sent, the socket is in the room of its
\* page and in no other, but for joins ignored while the connection was verified
\* and leaves that overtook their join; for any pages, moves and reconnections.
THEOREM RoomIsThePage == RoomsSpec => []RoomFollowsPage
<1>1. RoomsIInv => RoomFollowsPage
  <2> SUFFICES ASSUME RoomsIInv, conn.pc = "admitted", inbox = <<>>, conn.joining = {}
               PROVE  /\ page \in TicketPages \ dropped => page \in conn.rooms
                      /\ conn.rooms \subseteq {page} \cup overtaken
    BY DEF RoomFollowsPage
  <2>1. link = "up"
    BY DEF RoomsIInv, RoomsTypeOK
  <2>2. page \in TicketPages \ dropped => page \in conn.rooms
    BY <2>1, RoomsAssumption DEF RoomsIInv, PageIsJoined
  <2>3. \A t : ~Leaves(inbox, t)
    BY DEF Leaves
  <2>4. conn.rooms \subseteq {page} \cup overtaken
    BY <2>3 DEF RoomsIInv, OthersAreLeft
  <2> QED
    BY <2>2, <2>4
<1>2. QED
  BY <1>1, RoomsInvariance, PTL

-----------------------------------------------------------------------------
(* ApiClient: what the steps write *)

LEMMA GenIs ==
  /\ 0 \in Gen /\ Gen \subseteq Nat
  /\ \A n \in Gen : n < MaxGen => n + 1 \in Gen
  BY ApiAssumption DEF Gen

LEMMA BlankIs ==
  ASSUME NEW t \in Tabs
  PROVE  Blank(t) \in Call /\ Blank(t).pc = "idle" /\ Blank(t).tab = t
  BY GenIs DEF Blank, Call, Kind, Code

LEMMA IdleIs ==
  ASSUME NEW q \in Call
  PROVE  Idle(q) \in Call /\ Idle(q).pc = "idle" /\ Idle(q).tab = q.tab
  BY BlankIs DEF Idle, Call

LEMMA OneCall ==
  ASSUME ApiTypeOK, NEW c \in Calls, NEW q \in Call, call' = [call EXCEPT ![c] = q]
  PROVE  /\ call' \in [Calls -> Call] /\ call'[c] = q
         /\ \A d \in Calls \ {c} : call'[d] = call[d]
  BY DEF ApiTypeOK

LEMMA OneTab ==
  ASSUME ApiTypeOK, NEW t \in Tabs, NEW q \in Tab, tab' = [tab EXCEPT ![t] = q]
  PROVE  /\ tab' \in [Tabs -> Tab] /\ tab'[t] = q
         /\ \A u \in Tabs \ {t} : tab'[u] = tab[u]
  BY DEF ApiTypeOK

LEMMA AnsweredIs ==
  ASSUME ApiTypeOK, NEW c \in Calls, NEW code \in Code,
         NEW got \in Gen, Answered(c, code, got)
  PROVE  /\ call' \in [Calls -> Call]
         /\ \A d \in Calls \ {c} : call'[d] = call[d]
         /\ call'[c].pc = "answered" /\ call'[c].code = code /\ call'[c].got = got
         /\ call'[c].kind = call[c].kind /\ call'[c].tab = call[c].tab
<1>1. PICK old \in Call : old = call[c]
  BY DEF ApiTypeOK
<1>2. PICK q : q = [old EXCEPT !.pc = "answered", !.code = code, !.got = got]
  OBVIOUS
<1>3. /\ q.pc = "answered" /\ q.code = code /\ q.got = got
      /\ q.kind = old.kind /\ q.tab = old.tab
  BY <1>2 DEF Call
<1>4. q \in Call
  BY <1>2 DEF Call
<1>5. call' = [call EXCEPT ![c] = q]
  BY <1>1, <1>2 DEF Answered, ApiTypeOK
<1>6. QED
  BY <1>1, <1>3, <1>4, <1>5, OneCall

LEMMA IssuedIs ==
  ASSUME ApiTypeOK, server.last < MaxGen, server' = Issued
  PROVE  /\ NextGen \in Gen /\ NextGen = server.last + 1
         /\ server' \in Server
         /\ server'.last = NextGen /\ server'.alarm = server.alarm
         /\ server'.alive = server.alive \cup {NextGen}
         /\ \A g \in Gen \ {NextGen} : /\ server'.origin[g] = server.origin[g]
                                       /\ server'.latest[g] = server.latest[g]
         /\ server'.origin[NextGen] = NextGen /\ server'.latest[NextGen] = NextGen
<1>1. server \in Server /\ server.last \in Gen
  BY DEF ApiTypeOK, Server
<1>2. NextGen \in Gen /\ NextGen = server.last + 1
  BY <1>1, GenIs DEF NextGen
<1> DEFINE n == NextGen
<1>3. /\ server'.last = n /\ server'.alarm = server.alarm
      /\ server'.alive = server.alive \cup {n}
      /\ server'.origin = [server.origin EXCEPT ![n] = n]
      /\ server'.latest = [server.latest EXCEPT ![n] = n]
      /\ server' = [last |-> n, origin |-> server'.origin, latest |-> server'.latest,
                    alive |-> server.alive \cup {n}, alarm |-> server.alarm]
  BY <1>1 DEF Issued, Server
<1> HIDE DEF n
<1>4. n \in Gen
  BY <1>2 DEF n
<1>5. /\ server.origin \in [Gen -> Gen] /\ server.latest \in [Gen -> Gen]
      /\ server.alive \subseteq Gen /\ server.alarm \in BOOLEAN
  BY <1>1 DEF Server
<1>6. server' \in Server
  BY <1>3, <1>4, <1>5 DEF Server
<1>7. QED
  BY <1>2, <1>3, <1>4, <1>5, <1>6 DEF n

LEMMA RotatedIs ==
  ASSUME ApiTypeOK, server.last < MaxGen, NEW s \in Gen, server' = Rotated(s)
  PROVE  /\ NextGen \in Gen /\ NextGen = server.last + 1
         /\ server' \in Server
         /\ server'.last = NextGen /\ server'.alarm = server.alarm
         /\ server'.alive = server.alive
         /\ \A g \in Gen \ {NextGen} : server'.origin[g] = server.origin[g]
         /\ \A g \in Gen \ {s} : server'.latest[g] = server.latest[g]
         /\ server'.origin[NextGen] = s /\ server'.latest[s] = NextGen
<1>1. server \in Server /\ server.last \in Gen
  BY DEF ApiTypeOK, Server
<1>2. NextGen \in Gen /\ NextGen = server.last + 1
  BY <1>1, GenIs DEF NextGen
<1> DEFINE n == NextGen
<1>3. /\ server'.last = n /\ server'.alarm = server.alarm
      /\ server'.alive = server.alive
      /\ server'.origin = [server.origin EXCEPT ![n] = s]
      /\ server'.latest = [server.latest EXCEPT ![s] = n]
      /\ server' = [last |-> n, origin |-> server'.origin, latest |-> server'.latest,
                    alive |-> server.alive, alarm |-> server.alarm]
  BY <1>1 DEF Rotated, Server
<1> HIDE DEF n
<1>4. n \in Gen
  BY <1>2 DEF n
<1>5. /\ server.origin \in [Gen -> Gen] /\ server.latest \in [Gen -> Gen]
      /\ server.alive \subseteq Gen /\ server.alarm \in BOOLEAN
  BY <1>1 DEF Server
<1>6. server' \in Server
  BY <1>3, <1>4, <1>5 DEF Server
<1>7. QED
  BY <1>2, <1>3, <1>4, <1>5, <1>6 DEF n

\* A session ends.
LEMMA KilledIs ==
  ASSUME ApiTypeOK, NEW s, NEW alarm \in BOOLEAN,
         \/ server' = [server EXCEPT !.alive = @ \ {s}, !.alarm = alarm]
         \/ server' = [server EXCEPT !.alive = @ \ {s}] /\ alarm = server.alarm
  PROVE  /\ server' \in Server /\ server'.alarm = alarm
         /\ server'.last = server.last /\ server'.origin = server.origin
         /\ server'.latest = server.latest /\ server'.alive = server.alive \ {s}
<1>1. server \in Server
  BY DEF ApiTypeOK
<1>2. QED
  BY <1>1 DEF Server

LEMMA LoadedIs ==
  ASSUME ApiTypeOK, NEW t \in Tabs, NEW to \in {"login", "dashboard"}, Loaded(t, to)
  PROVE  /\ tab' \in [Tabs -> Tab]
         /\ \A u \in Tabs \ {t} : tab'[u] = tab[u]
         /\ tab'[t].page = to /\ ~tab'[t].user /\ tab'[t].csrf = 0
         /\ tab'[t].refresh = "none" /\ tab'[t].seen = 0 /\ tab'[t].got = 0
         /\ tab'[t].overtaken = tab[t].overtaken
         /\ call' \in [Calls -> Call]
         /\ \A c \in Calls : IF call[c].tab = t THEN call'[c].pc = "idle"
                                                ELSE call'[c] = call[c]
<1> DEFINE q == [page |-> to, user |-> FALSE, csrf |-> 0, refresh |-> "none",
                 seen |-> 0, got |-> 0, overtaken |-> tab[t].overtaken]
<1>1. tab[t] \in Tab
  BY DEF ApiTypeOK
<1>2. q \in Tab
  BY <1>1, GenIs DEF Tab, Refreshing
<1>3. tab' = [tab EXCEPT ![t] = q]
  BY DEF Loaded
<1>4. tab' \in [Tabs -> Tab] /\ tab'[t] = q /\ \A u \in Tabs \ {t} : tab'[u] = tab[u]
  BY <1>2, <1>3, OneTab
<1>5. \A c \in Calls : /\ call'[c] \in Call
                       /\ IF call[c].tab = t THEN call'[c].pc = "idle"
                                             ELSE call'[c] = call[c]
  BY IdleIs DEF Loaded, ApiTypeOK
<1>6. call' \in [Calls -> Call]
  BY <1>5 DEF Loaded
<1>7. QED
  BY <1>4, <1>5, <1>6

LEMMA ServeIs ==
  ASSUME ApiTypeOK, NEW c \in Calls, Serve(c)
  PROVE  /\ UNCHANGED <<jar, tab, steady>> /\ call[c].pc = "sent"
         /\ call' \in [Calls -> Call]
         /\ \A d \in Calls \ {c} : call'[d] = call[d]
         /\ call'[c].pc = "answered"
         /\ call'[c].kind = call[c].kind /\ call'[c].tab = call[c].tab
         /\ server' \in Server
         /\ \/ server' = server /\ call[c].kind # "login"
            \/ /\ server.last < MaxGen /\ server' = Issued /\ call[c].kind = "login"
               /\ call'[c].got = NextGen
            \/ /\ server' = [server EXCEPT !.alive = @ \ {server.origin[call[c].gen]}]
               /\ call[c].kind # "login"
         /\ call[c].kind = "me" =>
              /\ call'[c].got = call[c].gen
              /\ call'[c].code = 200 => Alive(call[c].gen)
         /\ call'[c].code = 403 => /\ call[c].kind = "mutate" /\ Alive(call[c].gen)
                                   /\ ~Matches(call[c])
<1>1. PICK q \in Call : q = call[c]
  BY DEF ApiTypeOK
<1>2. /\ {0, 200, 401, 403} \subseteq Code /\ 0 \in Gen /\ q.gen \in Gen
      /\ q.kind \in {"me", "mutate", "login", "logout"}
      /\ server \in Server /\ server.alarm \in BOOLEAN
  BY GenIs DEF Code, Call, Kind, ApiTypeOK, Server
<1>3. q.pc = "sent" /\ UNCHANGED <<jar, tab, steady>>
  BY <1>1 DEF Serve
<1>4. CASE q.kind = "me"
  <2>1. PICK code \in Code : /\ Answered(c, code, q.gen) /\ UNCHANGED server
                             /\ code \in {200, 401} /\ (code = 200 => SignedIn(q))
    BY <1>1, <1>2, <1>4 DEF Serve
  <2> QED
    BY <1>1, <1>2, <1>3, <1>4, <2>1, AnsweredIs DEF SignedIn
<1>5. CASE q.kind = "mutate"
  <2>1. PICK code \in Code : /\ Answered(c, code, 0) /\ UNCHANGED server
                             /\ code = 403 => SignedIn(q) /\ ~Matches(q)
    BY <1>1, <1>2, <1>5 DEF Serve
  <2> QED
    BY <1>1, <1>2, <1>3, <1>5, <2>1, AnsweredIs DEF SignedIn
<1>6. CASE q.kind = "login"
  <2>1. /\ server.last < MaxGen /\ server' = Issued
        /\ Answered(c, 200, NextGen) /\ 200 \in Code /\ 200 # 403
    BY <1>1, <1>2, <1>6 DEF Serve
  <2> QED
    BY <1>1, <1>3, <1>6, <2>1, AnsweredIs, IssuedIs
<1>7. CASE q.kind = "logout"
  <2>1. PICK code \in Code :
          /\ Answered(c, code, 0) /\ code # 403
          /\ \/ UNCHANGED server
             \/ server' = [server EXCEPT !.alive = @ \ {server.origin[q.gen]}]
    BY <1>1, <1>2, <1>7 DEF Serve
  <2>2. server' \in Server
    BY ZenonT(60), <1>2, <2>1, KilledIs
  <2> QED
    BY <1>1, <1>2, <1>3, <1>7, <2>1, <2>2, AnsweredIs
<1>8. QED
  BY <1>2, <1>4, <1>5, <1>6, <1>7

LEMMA ServeRefreshIs ==
  ASSUME ApiTypeOK, NEW t \in Tabs, ServeRefresh(t)
  PROVE  /\ UNCHANGED <<jar, call, steady>> /\ tab[t].refresh = "sent"
         /\ tab' \in [Tabs -> Tab]
         /\ \A u \in Tabs \ {t} : tab'[u] = tab[u]
         /\ tab'[t].refresh = "answered" /\ tab'[t].seen = tab[t].seen
         /\ tab'[t].csrf = tab[t].csrf /\ tab'[t].user = tab[t].user
         /\ tab'[t].overtaken = tab[t].overtaken
         /\ server' \in Server
         /\ \/ ~Alive(tab[t].seen) /\ tab'[t].got = 0 /\ UNCHANGED server
            \/ /\ Alive(tab[t].seen) /\ tab'[t].got = NextGen
               /\ server.latest[server.origin[tab[t].seen]] = tab[t].seen
               /\ server.last < MaxGen /\ server' = Rotated(server.origin[tab[t].seen])
            \/ /\ Alive(tab[t].seen) /\ tab'[t].got = 0
               /\ server.latest[server.origin[tab[t].seen]] # tab[t].seen
               /\ server' = [server EXCEPT !.alive = @ \ {server.origin[tab[t].seen]},
                                           !.alarm = TRUE]
<1>1. PICK q \in Tab : q = tab[t]
  BY DEF ApiTypeOK
<1>2. /\ q.seen \in Gen /\ server \in Server /\ 0 \in Gen
      /\ server.origin[q.seen] \in Gen
  BY GenIs DEF Tab, ApiTypeOK, Server
<1>3. ASSUME NEW got \in Gen, tab' = [tab EXCEPT ![t].refresh = "answered", ![t].got = got]
      PROVE  /\ tab' \in [Tabs -> Tab]
             /\ \A u \in Tabs \ {t} : tab'[u] = tab[u]
             /\ tab'[t].refresh = "answered" /\ tab'[t].got = got
             /\ tab'[t].seen = q.seen /\ tab'[t].csrf = q.csrf
             /\ tab'[t].user = q.user /\ tab'[t].overtaken = q.overtaken
  <2>1. PICK new : new = [q EXCEPT !.refresh = "answered", !.got = got]
    OBVIOUS
  <2>2. /\ new \in Tab /\ new.refresh = "answered" /\ new.got = got
        /\ new.seen = q.seen /\ new.csrf = q.csrf /\ new.user = q.user
        /\ new.overtaken = q.overtaken
    BY <2>1 DEF Tab, Refreshing
  <2>3. tab' = [tab EXCEPT ![t] = new]
    BY <1>1, <1>3, <2>1 DEF ApiTypeOK
  <2> QED
    BY <2>2, <2>3, OneTab
<1>4. q.refresh = "sent" /\ UNCHANGED <<jar, call, steady>>
  BY <1>1 DEF ServeRefresh
<1>5. CASE ~Alive(q.seen) /\ UNCHANGED server
           /\ tab' = [tab EXCEPT ![t].refresh = "answered", ![t].got = 0]
  BY <1>1, <1>2, <1>3, <1>4, <1>5
<1>6. CASE /\ Alive(q.seen) /\ server.latest[server.origin[q.seen]] = q.seen
           /\ server.last < MaxGen /\ server' = Rotated(server.origin[q.seen])
           /\ tab' = [tab EXCEPT ![t].refresh = "answered", ![t].got = NextGen]
  <2>1. NextGen \in Gen /\ server' \in Server
    BY <1>2, <1>6, RotatedIs
  <2> QED
    BY <1>1, <1>3, <1>4, <1>6, <2>1
<1>7. CASE /\ Alive(q.seen) /\ server.latest[server.origin[q.seen]] # q.seen
           /\ server' = [server EXCEPT !.alive = @ \ {server.origin[q.seen]}, !.alarm = TRUE]
           /\ tab' = [tab EXCEPT ![t].refresh = "answered", ![t].got = 0]
  <2>1. server' \in Server
    BY <1>7, KilledIs
  <2> QED
    BY <1>1, <1>2, <1>3, <1>4, <1>7, <2>1
<1>8. QED
  BY <1>1, <1>5, <1>6, <1>7 DEF ServeRefresh

LEMMA SendIs ==
  ASSUME ApiTypeOK, NEW c \in Calls, NEW t \in Tabs, NEW kind \in Kind,
         Send(t, c, kind)
  PROVE  /\ UNCHANGED <<jar, server, tab, steady>>
         /\ call' \in [Calls -> Call]
         /\ \A d \in Calls \ {c} : call'[d] = call[d]
         /\ call'[c].pc = "sent" /\ call'[c].kind = kind /\ call'[c].tab = t
         /\ call'[c].gen = jar.gen /\ call'[c].header = Header(t)
         /\ kind = "mutate" => tab[t].user
<1>1. PICK old \in Call : old = Blank(t)
  BY BlankIs
<1>2. old.tab = t
  BY <1>1, BlankIs
<1>3. PICK blank : blank = [old EXCEPT !.kind = kind]
  OBVIOUS
<1>4. blank \in Call /\ blank.kind = kind /\ blank.tab = t
  BY <1>2, <1>3 DEF Call
<1>5. PICK header : header = Header(t)
  OBVIOUS
<1>6. jar.gen \in Gen /\ jar.access \in BOOLEAN /\ header \in Gen
  BY <1>5, GenIs DEF ApiTypeOK, Jar, Tab, Header
<1>7. PICK q : q = [blank EXCEPT !.pc = "sent", !.gen = jar.gen, !.access = jar.access,
                                 !.header = header]
  OBVIOUS
<1>8. /\ q.pc = "sent" /\ q.kind = kind /\ q.tab = t /\ q.gen = jar.gen
      /\ q.header = header
  BY <1>4, <1>7 DEF Call
<1>9. q \in Call
  BY <1>4, <1>6, <1>7 DEF Call
<1>10. q = Sent(blank)
  BY <1>4, <1>5, <1>7 DEF Sent
<1>11. call' = [call EXCEPT ![c] = q] /\ UNCHANGED <<jar, server, tab, steady>>
  BY <1>1, <1>3, <1>10 DEF Send
<1>12. kind = "mutate" => tab[t].user
  BY DEF Send
<1>13. QED
  BY <1>5, <1>8, <1>9, <1>11, <1>12, OneCall

\* What an answer without an error does to its tab t and to the cookies.
Taken(c, t) ==
  /\ UNCHANGED <<server, steady>>
  /\ call[c].pc = "answered" /\ call[c].code = 200
  /\ call' \in [Calls -> Call] /\ call'[c].pc = "idle"
  /\ \A d \in Calls \ {c} : call'[d] = call[d]
  /\ tab' \in [Tabs -> Tab]
  /\ \A u \in Tabs \ {t} : tab'[u] = tab[u]
  /\ tab'[t].refresh = tab[t].refresh /\ tab'[t].seen = tab[t].seen
  /\ tab'[t].got = tab[t].got
  /\ jar' \in Jar
  /\ \/ /\ call[c].kind = "me" /\ jar' = jar /\ tab'[t].csrf = call[c].got
        /\ ~tab'[t].overtaken => ~tab[t].overtaken /\ call[c].got = jar.gen
     \/ /\ call[c].kind = "login" /\ jar'.gen = call[c].got
        /\ tab'[t].csrf = call[c].got /\ tab'[t].overtaken = tab[t].overtaken
     \/ /\ call[c].kind = "logout" /\ jar'.gen = 0 /\ tab'[t].csrf = 0
        /\ tab'[t].user = FALSE /\ tab'[t].overtaken = tab[t].overtaken
     \/ /\ call[c].kind = "mutate" /\ jar' = jar /\ tab' = tab

LEMMA SucceedIs ==
  ASSUME ApiTypeOK, NEW c \in Calls, NEW t \in Tabs, t = call[c].tab, Succeed(c)
  PROVE  Taken(c, t)
<1>1. PICK q \in Call : q = call[c]
  BY DEF ApiTypeOK
<1>2. PICK old \in Tab : old = tab[t]
  BY DEF ApiTypeOK
<1>3. PICK g \in Gen : g = q.got
  BY DEF Call
<1>4. /\ UNCHANGED <<server, steady>> /\ q.pc = "answered" /\ q.code = 200
      /\ call' = [call EXCEPT ![c] = Idle(q)]
  BY <1>1 DEF Succeed, ApiTypeOK
<1>5. /\ call' \in [Calls -> Call] /\ call'[c].pc = "idle"
      /\ \A d \in Calls \ {c} : call'[d] = call[d]
  <2>1. PICK p \in Call : p = Idle(q) /\ p.pc = "idle"
    BY IdleIs
  <2>2. call' = [call EXCEPT ![c] = p]
    BY <1>4, <2>1
  <2> QED
    BY <2>1, <2>2, OneCall
<1>6. jar \in Jar /\ jar.gen \in Gen /\ 0 \in Gen /\ tab \in [Tabs -> Tab]
  BY GenIs DEF ApiTypeOK, Jar
<1>7. CASE q.kind = "me"
  <2>1. PICK new : new = [old EXCEPT !.user = TRUE, !.csrf = g,
                                     !.overtaken = @ \/ g # jar.gen]
    OBVIOUS
  <2>2. /\ new \in Tab /\ new.csrf = g /\ new.refresh = old.refresh
        /\ new.seen = old.seen /\ new.got = old.got
        /\ new.overtaken = (old.overtaken \/ g # jar.gen)
    BY <2>1 DEF Tab
  <2>3. tab' = [tab EXCEPT ![t] = new] /\ jar' = jar
    BY <1>1, <1>2, <1>3, <1>6, <1>7, <2>1 DEF Succeed, ProfileArrived
  <2> QED
    BY ZenonT(60), <1>1, <1>2, <1>3, <1>4, <1>5, <1>6, <1>7, <2>2, <2>3, OneTab
       DEF Taken
<1>8. CASE q.kind = "login"
  <2>1. PICK new : new = [old EXCEPT !.csrf = g, !.page = "dashboard"]
    OBVIOUS
  <2>2. /\ new \in Tab /\ new.csrf = g /\ new.refresh = old.refresh
        /\ new.seen = old.seen /\ new.got = old.got
        /\ new.overtaken = old.overtaken
    BY <2>1 DEF Tab
  <2>3. tab' = [tab EXCEPT ![t] = new] /\ jar' = [gen |-> g, access |-> TRUE]
    BY <1>1, <1>2, <1>3, <1>6, <1>8, <2>1 DEF Succeed, LoggedIn
  <2>4. jar' \in Jar /\ jar'.gen = g
    BY <2>3 DEF Jar
  <2> QED
    BY ZenonT(60), <1>1, <1>2, <1>3, <1>4, <1>5, <1>8, <2>2, <2>3, <2>4, OneTab
       DEF Taken
<1>9. CASE q.kind = "logout"
  <2>1. PICK new : new = [old EXCEPT !.csrf = 0, !.user = FALSE, !.page = "login"]
    OBVIOUS
  <2>2. /\ new \in Tab /\ new.csrf = 0 /\ new.user = FALSE /\ new.refresh = old.refresh
        /\ new.seen = old.seen /\ new.got = old.got
        /\ new.overtaken = old.overtaken
    BY <1>6, <2>1 DEF Tab
  <2>3. tab' = [tab EXCEPT ![t] = new] /\ jar' = [gen |-> 0, access |-> FALSE]
    BY <1>1, <1>2, <1>6, <1>9, <2>1 DEF Succeed, LoggedOut
  <2>4. jar' \in Jar /\ jar'.gen = 0
    BY <1>6, <2>3 DEF Jar
  <2> QED
    <3>1. /\ tab' \in [Tabs -> Tab] /\ tab'[t] = new
          /\ \A u \in Tabs \ {t} : tab'[u] = tab[u]
      BY <2>2, <2>3, OneTab
    <3> QED
      BY <1>1, <1>2, <1>4, <1>5, <1>9, <2>2, <2>4, <3>1
         DEF Taken
<1>10. CASE q.kind = "mutate"
  <2>1. tab' = tab /\ jar' = jar
    BY <1>1, <1>10 DEF Succeed
  <2> QED
    BY <1>1, <1>4, <1>5, <1>6, <1>10, <2>1
       DEF Taken
<1>11. q.kind \in {"me", "login", "logout", "mutate"}
  BY <1>1 DEF Succeed
<1>12. QED
  BY <1>7, <1>8, <1>9, <1>10, <1>11

LEMMA RetryIs ==
  ASSUME ApiTypeOK, NEW c \in Calls, NEW t \in Tabs, t = call[c].tab, Retry(c)
  PROVE  /\ UNCHANGED <<jar, server, steady>>
         /\ call' \in [Calls -> Call] /\ call'[c].pc = "waiting" /\ call'[c].tab = t
         /\ \A d \in Calls \ {c} : call'[d] = call[d]
         /\ tab' \in [Tabs -> Tab]
         /\ \A u \in Tabs \ {t} : tab'[u] = tab[u]
         /\ tab'[t].csrf = tab[t].csrf /\ tab'[t].user = tab[t].user
         /\ tab'[t].overtaken = tab[t].overtaken /\ tab'[t].got = tab[t].got
         /\ \/ tab[t].refresh # "none" /\ tab' = tab
            \/ /\ tab[t].refresh = "none" /\ tab'[t].refresh = "sent"
               /\ tab'[t].seen = jar.gen
<1>1. PICK q \in Call : q = call[c]
  BY DEF ApiTypeOK
<1>2. PICK old \in Tab : old = tab[t]
  BY DEF ApiTypeOK
<1>3. UNCHANGED <<jar, server, steady>>
  BY DEF Retry
<1>4. PICK p : p = [q EXCEPT !.pc = "waiting", !.retried = TRUE]
  OBVIOUS
<1>5. p \in Call /\ p.pc = "waiting" /\ p.tab = q.tab
  BY <1>4 DEF Call
<1>6. call' = [call EXCEPT ![c] = p]
  <2>1. call' = [call EXCEPT ![c].pc = "waiting", ![c].retried = TRUE]
    BY DEF Retry
  <2> QED
    BY <1>1, <1>4, <2>1 DEF ApiTypeOK
<1>7. /\ call' \in [Calls -> Call] /\ call'[c].pc = "waiting" /\ call'[c].tab = t
      /\ \A d \in Calls \ {c} : call'[d] = call[d]
  BY <1>1, <1>5, <1>6, OneCall
<1>8. CASE old.refresh = "none"
  <2>1. PICK new : new = [old EXCEPT !.refresh = "sent", !.seen = jar.gen]
    OBVIOUS
  <2>2. jar.gen \in Gen
    BY DEF ApiTypeOK, Jar
  <2>3. /\ new \in Tab /\ new.refresh = "sent" /\ new.seen = jar.gen
        /\ new.csrf = old.csrf /\ new.user = old.user
        /\ new.overtaken = old.overtaken /\ new.got = old.got
    BY <2>1, <2>2 DEF Tab, Refreshing
  <2>4. tab' = [tab EXCEPT ![t] = new]
    BY <1>2, <1>8, <2>1 DEF Retry, ApiTypeOK
  <2> QED
    BY <1>2, <1>3, <1>7, <1>8, <2>3, <2>4, OneTab
<1>9. CASE old.refresh # "none"
  <2>1. tab' = tab /\ tab \in [Tabs -> Tab]
    BY <1>2, <1>9 DEF Retry, ApiTypeOK
  <2> QED
    BY <1>2, <1>3, <1>7, <1>9, <2>1
<1>10. QED
  BY <1>8, <1>9

LEMMA DesistIs ==
  ASSUME ApiTypeOK, NEW c \in Calls, NEW t \in Tabs, t = call[c].tab, Desist(c)
  PROVE  /\ UNCHANGED <<jar, server, steady>>
         /\ call' \in [Calls -> Call] /\ call'[c].pc = "idle"
         /\ \A d \in Calls \ {c} : call'[d] = call[d]
         /\ tab' \in [Tabs -> Tab]
         /\ \A u \in Tabs :
              /\ tab'[u].csrf = tab[u].csrf /\ tab'[u].user = tab[u].user
              /\ tab'[u].refresh = tab[u].refresh /\ tab'[u].seen = tab[u].seen
              /\ tab'[u].got = tab[u].got /\ tab'[u].overtaken = tab[u].overtaken
<1>1. PICK q \in Call : q = call[c]
  BY DEF ApiTypeOK
<1>2. PICK old \in Tab : old = tab[t]
  BY DEF ApiTypeOK
<1>3. UNCHANGED <<jar, server, steady>> /\ call' = [call EXCEPT ![c] = Idle(q)]
  BY <1>1 DEF Desist, ApiTypeOK
<1>4. /\ call' \in [Calls -> Call] /\ call'[c].pc = "idle"
      /\ \A d \in Calls \ {c} : call'[d] = call[d]
  BY <1>3, IdleIs, OneCall
<1>5. PICK new : new = [old EXCEPT !.page = "login"]
  OBVIOUS
<1>6. /\ new \in Tab /\ new.csrf = old.csrf /\ new.user = old.user
      /\ new.refresh = old.refresh /\ new.seen = old.seen /\ new.got = old.got
      /\ new.overtaken = old.overtaken
  BY <1>5 DEF Tab
<1>7. tab' = tab \/ tab' = [tab EXCEPT ![t] = new]
  BY <1>2, <1>5 DEF Desist, ApiTypeOK
<1>8. CASE tab' = tab
  BY <1>3, <1>4, <1>8 DEF ApiTypeOK
<1>9. CASE tab' = [tab EXCEPT ![t] = new]
  BY <1>2, <1>3, <1>4, <1>6, <1>9, OneTab
<1>10. QED
  BY <1>7, <1>8, <1>9

LEMMA RefreshedIs ==
  ASSUME ApiTypeOK, NEW t \in Tabs, Refreshed(t)
  PROVE  /\ UNCHANGED <<server, steady>>
         /\ tab[t].refresh = "answered" /\ tab[t].got # 0
         /\ jar' \in Jar /\ jar'.gen = tab[t].got
         /\ tab' \in [Tabs -> Tab]
         /\ \A u \in Tabs \ {t} : tab'[u] = tab[u]
         /\ tab'[t].csrf = tab[t].got /\ tab'[t].refresh = "none"
         /\ tab'[t].seen = 0 /\ tab'[t].got = 0
         /\ tab'[t].user = tab[t].user /\ tab'[t].overtaken = tab[t].overtaken
         /\ call' \in [Calls -> Call]
         /\ \A c \in Calls :
              IF call[c].tab = t /\ call[c].pc = "waiting"
              THEN /\ call'[c].pc = "sent" /\ call'[c].tab = t
                   /\ call'[c].kind = call[c].kind
                   /\ call'[c].header = call'[c].gen
              ELSE call'[c] = call[c]
<1>1. PICK old \in Tab : old = tab[t]
  BY DEF ApiTypeOK
<1>2. PICK g \in Gen : g = old.got
  BY DEF Tab
<1>3. UNCHANGED <<server, steady>> /\ old.refresh = "answered" /\ g # 0
  BY <1>1, <1>2 DEF Refreshed
<1>4. jar' = [gen |-> g, access |-> TRUE]
  BY <1>1, <1>2 DEF Refreshed
<1>5. jar' \in Jar /\ jar'.gen = g
  BY <1>4 DEF Jar
<1>6. PICK new : new = [old EXCEPT !.csrf = g, !.refresh = "none", !.seen = 0, !.got = 0]
  OBVIOUS
<1>7. /\ new \in Tab /\ new.csrf = g /\ new.refresh = "none" /\ new.seen = 0
      /\ new.got = 0 /\ new.user = old.user /\ new.overtaken = old.overtaken
  BY <1>6, GenIs DEF Tab, Refreshing
<1>8. tab' = [tab EXCEPT ![t] = new]
  <2>1. tab' = [tab EXCEPT ![t].csrf = g, ![t].refresh = "none",
                           ![t].seen = 0, ![t].got = 0]
    BY <1>1, <1>2 DEF Refreshed
  <2> QED
    BY <1>1, <1>6, <2>1 DEF ApiTypeOK
<1>9. /\ tab' \in [Tabs -> Tab] /\ tab'[t] = new
      /\ \A u \in Tabs \ {t} : tab'[u] = tab[u]
  BY <1>7, <1>8, OneTab
<1>10. call' = [c \in Calls |-> IF call[c].tab = t /\ call[c].pc = "waiting"
                                THEN Again(call[c], g) ELSE call[c]]
  BY <1>1, <1>2 DEF Refreshed
<1>11. ASSUME NEW c \in Calls
       PROVE  /\ call'[c] \in Call
              /\ IF call[c].tab = t /\ call[c].pc = "waiting"
                 THEN /\ call'[c].pc = "sent" /\ call'[c].tab = t
                      /\ call'[c].kind = call[c].kind
                      /\ call'[c].header = call'[c].gen
                 ELSE call'[c] = call[c]
  <2>1. PICK q \in Call : q = call[c]
    BY DEF ApiTypeOK
  <2>2. PICK again : again = Again(q, g)
    OBVIOUS
  <2>3. again = [q EXCEPT !.pc = "sent", !.gen = g, !.access = TRUE, !.header = g]
    BY <2>2 DEF Again
  <2>4. /\ again.pc = "sent" /\ again.tab = q.tab /\ again.kind = q.kind
        /\ again.header = again.gen
    BY <2>3 DEF Call
  <2>5. again \in Call
    BY <2>3 DEF Call
  <2>6. call'[c] = IF q.tab = t /\ q.pc = "waiting" THEN again ELSE q
    BY <1>10, <2>1, <2>2
  <2> QED
    BY <2>1, <2>4, <2>5, <2>6
<1>12. call' \in [Calls -> Call]
  BY <1>10, <1>11
<1>13. QED
  BY <1>1, <1>2, <1>3, <1>5, <1>7, <1>9, <1>11, <1>12

LEMMA ExpiredIs ==
  ASSUME ApiTypeOK, NEW t \in Tabs, Expired(t)
  PROVE  /\ UNCHANGED <<jar, server, steady>>
         /\ tab[t].refresh = "answered" /\ tab[t].got = 0
         /\ tab' \in [Tabs -> Tab]
         /\ \A u \in Tabs \ {t} : tab'[u] = tab[u]
         /\ tab'[t].refresh = "none" /\ tab'[t].seen = 0 /\ tab'[t].got = 0
         /\ \/ tab'[t].user = tab[t].user /\ tab'[t].csrf = tab[t].csrf
            \/ ~tab'[t].user /\ tab'[t].csrf = 0
         /\ tab'[t].overtaken = tab[t].overtaken
         /\ call' \in [Calls -> Call]
         /\ \A c \in Calls :
              /\ call'[c] = call[c] \/ call'[c].pc = "idle"
              /\ call[c].tab = t /\ call[c].pc = "waiting" => call'[c].pc = "idle"
<1>1. UNCHANGED <<jar, server, steady>> /\ tab[t].refresh = "answered" /\ tab[t].got = 0
  BY DEF Expired
<1>2. CASE Loaded(t, "login")
  BY <1>1, <1>2, LoadedIs
<1>3. CASE /\ tab' = [tab EXCEPT ![t].refresh = "none", ![t].seen = 0]
           /\ call' = [c \in Calls |->
                IF call[c].tab = t /\ call[c].pc = "waiting"
                THEN Idle(call[c]) ELSE call[c]]
  <2>1. PICK old \in Tab : old = tab[t]
    BY DEF ApiTypeOK
  <2>2. PICK new : new = [old EXCEPT !.refresh = "none", !.seen = 0]
    OBVIOUS
  <2>3. /\ new \in Tab /\ new.refresh = "none" /\ new.seen = 0 /\ new.got = old.got
        /\ new.csrf = old.csrf /\ new.user = old.user /\ new.overtaken = old.overtaken
    BY <2>2, GenIs DEF Tab, Refreshing
  <2>4. tab' = [tab EXCEPT ![t] = new]
    BY <1>3, <2>1, <2>2 DEF ApiTypeOK
  <2>5. /\ tab' \in [Tabs -> Tab] /\ tab'[t] = new
        /\ \A u \in Tabs \ {t} : tab'[u] = tab[u]
    BY <2>3, <2>4, OneTab
  <2>6. \A c \in Calls :
          /\ call'[c] \in Call
          /\ call'[c] = call[c] \/ call'[c].pc = "idle"
          /\ call[c].tab = t /\ call[c].pc = "waiting" => call'[c].pc = "idle"
    BY <1>3, IdleIs DEF ApiTypeOK
  <2>7. call' \in [Calls -> Call]
    BY <1>3, <2>6
  <2> QED
    BY <1>1, <2>1, <2>3, <2>5, <2>6, <2>7
<1>4. QED
  BY <1>2, <1>3 DEF Expired

LEMMA LoseIs ==
  ASSUME ApiTypeOK, NEW c \in Calls, Lose(c)
  PROVE  /\ UNCHANGED <<jar, server, tab, steady>> /\ ~steady
         /\ call' \in [Calls -> Call] /\ call'[c].pc = "idle"
         /\ \A d \in Calls \ {c} : call'[d] = call[d]
<1>1. PICK p \in Call : p = Idle(call[c]) /\ p.pc = "idle"
  BY IdleIs DEF ApiTypeOK
<1>2. /\ UNCHANGED <<jar, server, tab, steady>> /\ ~steady
      /\ call' = [call EXCEPT ![c] = p]
  BY <1>1 DEF Lose, ApiTypeOK
<1>3. QED
  BY <1>1, <1>2, OneCall

LEMMA LoseRefreshIs ==
  ASSUME ApiTypeOK, NEW t \in Tabs, LoseRefresh(t)
  PROVE  /\ UNCHANGED <<jar, server, call, steady>> /\ ~steady
         /\ tab' \in [Tabs -> Tab]
         /\ \A u \in Tabs \ {t} : tab'[u] = tab[u]
         /\ tab'[t].refresh = "answered" /\ tab'[t].got = 0
         /\ tab'[t].seen = tab[t].seen
         /\ tab'[t].csrf = tab[t].csrf /\ tab'[t].user = tab[t].user
         /\ tab'[t].overtaken = tab[t].overtaken
<1>1. PICK old \in Tab : old = tab[t]
  BY DEF ApiTypeOK
<1>2. PICK new : new = [old EXCEPT !.refresh = "answered", !.got = 0]
  OBVIOUS
<1>3. /\ new \in Tab /\ new.refresh = "answered" /\ new.got = 0 /\ new.seen = old.seen
      /\ new.csrf = old.csrf /\ new.user = old.user /\ new.overtaken = old.overtaken
  BY <1>2, GenIs DEF Tab, Refreshing
<1>4. tab' = [tab EXCEPT ![t] = new] /\ UNCHANGED <<jar, server, call, steady>> /\ ~steady
  BY <1>1, <1>2 DEF LoseRefresh, ApiTypeOK
<1>5. QED
  BY <1>1, <1>3, <1>4, OneTab

LEMMA ExpireIs ==
  ASSUME ApiTypeOK, Expire
  PROVE  UNCHANGED <<server, tab, call, steady>> /\ jar' \in Jar /\ jar'.gen = jar.gen
  BY DEF ApiTypeOK, Expire, Jar

-----------------------------------------------------------------------------
(* ApiClient: types *)

LEMMA ApiTypes ==
  ASSUME ApiTypeOK, [ApiNext]_apiVars
  PROVE  ApiTypeOK'
<1> USE DEF ApiTypeOK
<1>1. ASSUME NEW c \in Calls, Serve(c)
      PROVE  ApiTypeOK'
  BY <1>1, ServeIs
<1>2. ASSUME NEW c \in Calls, Succeed(c)
      PROVE  ApiTypeOK'
  <2>1. PICK t \in Tabs : t = call[c].tab
    BY DEF Call
  <2>2. \A d \in Calls : call[d].tab \in Tabs
    BY DEF Call
  <2>3. ASSUME NEW d \in Calls, call'[d].pc = "waiting"
        PROVE  tab'[call'[d].tab].refresh # "none"
    <3>1. /\ \A u \in Tabs : tab'[u].refresh = tab[u].refresh
          /\ call'[c].pc = "idle" /\ \A e \in Calls \ {c} : call'[e] = call[e]
      BY ZenonT(60), <1>2, <2>1, SucceedIs DEF Taken
    <3> QED
      BY <2>2, <2>3, <3>1
  <2> QED
    BY <1>2, <2>1, <2>3, SucceedIs DEF Taken
<1>3. ASSUME NEW c \in Calls, Retry(c)
      PROVE  ApiTypeOK'
  <2>1. PICK t \in Tabs : t = call[c].tab
    BY DEF Call
  <2>2. \A d \in Calls : call[d].tab \in Tabs
    BY DEF Call
  <2>3. ASSUME NEW d \in Calls, call'[d].pc = "waiting"
        PROVE  tab'[call'[d].tab].refresh # "none"
    <3>1. /\ \A u \in Tabs : tab'[u].refresh = tab[u].refresh \/ tab'[u].refresh = "sent"
          /\ tab'[t].refresh # "none"
          /\ call'[c].tab = t /\ \A e \in Calls \ {c} : call'[e] = call[e]
      BY <1>3, <2>1, RetryIs
    <3> QED
      BY <2>2, <2>3, <3>1
  <2> QED
    BY <1>3, <2>1, <2>3, RetryIs
<1>4. ASSUME NEW c \in Calls, Desist(c)
      PROVE  ApiTypeOK'
  <2>1. PICK t \in Tabs : t = call[c].tab
    BY DEF Call
  <2>2. \A d \in Calls : call[d].tab \in Tabs
    BY DEF Call
  <2> QED
    BY <1>4, <2>1, <2>2, DesistIs
<1>5. ASSUME NEW c \in Calls, NEW t \in Tabs, NEW kind \in Kind, Send(t, c, kind)
      PROVE  ApiTypeOK'
  BY <1>5, SendIs
<1>6. ASSUME NEW c \in Calls, Lose(c)
      PROVE  ApiTypeOK'
  BY <1>6, LoseIs
<1>7. ASSUME NEW t \in Tabs, ServeRefresh(t)
      PROVE  ApiTypeOK'
  <2>1. \A d \in Calls : call[d].tab \in Tabs
    BY DEF Call
  <2>2. ASSUME NEW d \in Calls, call'[d].pc = "waiting"
        PROVE  tab'[call'[d].tab].refresh # "none"
    <3>1. /\ \A u \in Tabs : tab'[u].refresh = tab[u].refresh \/ tab'[u].refresh = "answered"
          /\ call' = call
      BY <1>7, ServeRefreshIs
    <3> QED
      BY <2>1, <2>2, <3>1
  <2> QED
    BY <1>7, <2>2, ServeRefreshIs
<1>8. ASSUME NEW t \in Tabs, Refreshed(t)
      PROVE  ApiTypeOK'
  <2>1. \A d \in Calls : call[d].tab \in Tabs
    BY DEF Call
  <2> QED
    BY <1>8, <2>1, RefreshedIs
<1>9. ASSUME NEW t \in Tabs, Expired(t)
      PROVE  ApiTypeOK'
  <2>1. \A d \in Calls : call[d].tab \in Tabs
    BY DEF Call
  <2> QED
    BY <1>9, <2>1, ExpiredIs
<1>10. ASSUME NEW t \in Tabs, Reload(t)
       PROVE  ApiTypeOK'
  <2>1. \A d \in Calls : call[d].tab \in Tabs
    BY DEF Call
  <2> QED
    BY <1>10, <2>1, LoadedIs DEF Reload
<1>11. ASSUME NEW t \in Tabs, LoseRefresh(t)
       PROVE  ApiTypeOK'
  <2>1. \A d \in Calls : call[d].tab \in Tabs
    BY DEF Call
  <2> QED
    BY <1>11, <2>1, LoseRefreshIs
<1>12. CASE Expire
  BY <1>12, ExpireIs
<1>13. CASE UNCHANGED apiVars
  BY <1>13 DEF apiVars
<1>14. QED
  BY <1>1, <1>2, <1>3, <1>4, <1>5, <1>6, <1>7, <1>8, <1>9, <1>10, <1>11, <1>12, <1>13
     DEF ApiNext

-----------------------------------------------------------------------------
(* ApiClient: the invariant *)

\* A login that the server has answered and the browser has not opened.
Unopened(c) == call[c].pc = "answered" /\ call[c].kind = "login"

\* Generations are handed out in order, and the cookie "none" opens nothing.
Originated ==
  /\ \A g \in Gen : server.origin[g] <= server.last
  /\ server.origin[0] = 0 /\ 0 \notin server.alive
Numbered ==
  /\ Originated
  /\ jar.gen <= server.last
  /\ \A t \in Tabs : tab[t].seen <= server.last /\ tab[t].got <= server.last
  /\ \A c \in Calls : Unopened(c) => call[c].got <= server.last /\ call[c].got # 0

\* A page with a profile has a token in memory.
HasToken ==
  /\ \A t \in Tabs : tab[t].user => tab[t].csrf # 0
  /\ \A c \in Calls : call[c].pc = "answered" /\ call[c].kind = "me"
                        /\ call[c].code = 200 => call[c].got # 0

\* Until an old profile arrives, the token a tab holds is that of its cookie.
TokenMatches ==
  Lone => \A t \in Tabs : ~tab[t].overtaken =>
    /\ tab[t].csrf \in {0, jar.gen}
    /\ \A c \in Calls : call[c].pc = "sent" /\ call[c].kind = "mutate"
                          => call[c].header = call[c].gen

Refused ==
  Lone => \A t \in Tabs : ~tab[t].overtaken =>
    \A c \in Calls : call[c].pc = "answered" => call[c].code # 403

\* The refresh token g is the last one of its session, if that is alive.
Current(g) == Alive(g) => server.latest[server.origin[g]] = g

\* The cookies of a rotation have come, and are not in the jar yet.
InPlace(t) == tab[t].refresh = "answered" /\ tab[t].got # 0

\* A lone tab presents only a last token, and no two of its tokens are of a
\* session that one of them could rotate for the other.
QuietTab(t) ==
  /\ tab[t].refresh = "sent" => Current(tab[t].seen)
  /\ IF InPlace(t) THEN Current(tab[t].got) ELSE Current(jar.gen)

QuietCall(c) ==
  Unopened(c) =>
    /\ Current(call[c].got) /\ call[c].got # jar.gen
    /\ \A t \in Tabs : call[c].got # tab[t].seen /\ call[c].got # tab[t].got
    /\ \A d \in Calls \ {c} : Unopened(d) => call[c].got # call[d].got

Quiet ==
  Lone /\ steady => /\ ~server.alarm
                    /\ \A t \in Tabs : QuietTab(t)
                    /\ \A c \in Calls : QuietCall(c)

ApiIInv ==
  ApiTypeOK /\ Numbered /\ HasToken /\ TokenMatches /\ Refused /\ Quiet

LEMMA SessionTypes ==
  ASSUME ApiTypeOK
  PROVE  /\ server \in Server /\ server.last \in Gen /\ server.last \in Nat
         /\ server.origin \in [Gen -> Gen] /\ server.latest \in [Gen -> Gen]
         /\ 0 \in Gen /\ Gen \subseteq Nat /\ jar.gen \in Gen
         /\ \A t \in Tabs : /\ tab[t].seen \in Gen /\ tab[t].got \in Gen
                            /\ tab[t].csrf \in Gen /\ tab[t].refresh \in Refreshing
         /\ \A c \in Calls : /\ call[c].got \in Gen /\ call[c].gen \in Gen
                             /\ call[c].tab \in Tabs
  BY GenIs DEF ApiTypeOK, Server, Jar, Tab, Call

\* What the server's answers do to its numbering.
LEMMA NumberedBy ==
  ASSUME ApiTypeOK, Originated, NEW n \in Gen, n = server.last + 1,
         server' \in Server, server'.last = n, server'.origin[n] <= n,
         \A g \in Gen \ {n} : server'.origin[g] = server.origin[g],
         server'.alive \subseteq server.alive \cup {n}
  PROVE  Originated' /\ server'.last \in Nat /\ server.last <= server'.last
<1>1. /\ server.last \in Nat /\ n \in Nat /\ 0 \in Gen
      /\ \A g \in Gen : server.origin[g] \in Nat
  BY SessionTypes
<1>2. n # 0 /\ server.last <= n
  BY <1>1
<1>3. ASSUME NEW g \in Gen
      PROVE  server'.origin[g] <= server'.last
  <2>1. CASE g = n
    BY <2>1
  <2>2. CASE g # n
    <3>1. server'.origin[g] = server.origin[g]
      BY <2>2
    <3>2. server.origin[g] <= server.last /\ server.origin[g] \in Nat
      BY <1>1 DEF Originated
    <3>3. server.origin[g] <= n
      BY <1>1, <1>2, <3>2
    <3> QED
      BY <3>1, <3>3
  <2> QED
    BY <2>1, <2>2
<1>4. QED
  BY <1>1, <1>2, <1>3 DEF Originated

LEMMA NumberedIssue ==
  ASSUME ApiTypeOK, Originated, server.last < MaxGen, server' = Issued
  PROVE  Originated' /\ server'.last \in Nat /\ server.last <= server'.last
<1>1. PICK n \in Gen : n = NextGen
  BY IssuedIs
<1>2. n <= n
  BY SessionTypes
<1>3. QED
  BY <1>1, <1>2, IssuedIs, NumberedBy

LEMMA NumberedRotation ==
  ASSUME ApiTypeOK, Originated, server.last < MaxGen, NEW s \in Gen, s <= server.last,
         server' = Rotated(s)
  PROVE  Originated' /\ server'.last \in Nat /\ server.last <= server'.last
<1>1. PICK n \in Gen : n = NextGen
  BY RotatedIs
<1>2. n = server.last + 1
  BY <1>1, RotatedIs
<1>3. s <= n
  BY <1>2, SessionTypes
<1>4. QED
  BY <1>1, <1>3, RotatedIs, NumberedBy

LEMMA NumberedKill ==
  ASSUME ApiTypeOK, Originated, server'.last = server.last,
         server'.origin = server.origin, server'.alive \subseteq server.alive
  PROVE  Originated' /\ server'.last \in Nat /\ server.last <= server'.last
<1>1. server.last \in Nat
  BY SessionTypes
<1>2. QED
  BY <1>1 DEF Originated

LEMMA Carried ==
  ASSUME ApiTypeOK, Numbered, server'.last \in Nat, server.last <= server'.last
  PROVE  /\ jar.gen <= server'.last /\ 0 <= server'.last
         /\ \A t \in Tabs : tab[t].seen <= server'.last /\ tab[t].got <= server'.last
         /\ \A c \in Calls : Unopened(c) => call[c].got <= server'.last
<1>1. \A g \in Gen : g <= server.last => g <= server'.last
  BY SessionTypes
<1>2. QED
  BY <1>1, SessionTypes DEF Numbered

LEMMA NumberedStep ==
  ASSUME ApiTypeOK, Numbered, [ApiNext]_apiVars
  PROVE  Numbered'
<1>1. Originated /\ server.last <= server.last /\ server.last \in Nat
  BY SessionTypes DEF Numbered
<1>2. /\ jar.gen <= server.last /\ 0 <= server.last
      /\ \A t \in Tabs : tab[t].seen <= server.last /\ tab[t].got <= server.last
      /\ \A d \in Calls : Unopened(d) => call[d].got <= server.last /\ call[d].got # 0
  BY SessionTypes DEF Numbered
<1>3. ASSUME UNCHANGED server
      PROVE  Originated' /\ server'.last = server.last
  BY <1>1, <1>3 DEF Originated
<1>4. ASSUME NEW c \in Calls, Serve(c)
      PROVE  Numbered'
  <2>1. /\ UNCHANGED <<jar, tab>> /\ call'[c].kind = call[c].kind
        /\ \A d \in Calls \ {c} : call'[d] = call[d]
    BY <1>4, ServeIs
  <2>2. CASE server' = server /\ call[c].kind # "login"
    BY <1>2, <1>3, <2>1, <2>2 DEF Numbered, Unopened
  <2>3. CASE server.last < MaxGen /\ server' = Issued /\ call'[c].got = NextGen
    <3>1. Originated' /\ server'.last \in Nat /\ server.last <= server'.last
      BY <1>1, <2>3, NumberedIssue
    <3>2. PICK n \in Gen : n = NextGen
      BY <2>3, IssuedIs
    <3>3. server'.last = n /\ n = server.last + 1
      BY <2>3, <3>2, IssuedIs
    <3>4. n # 0 /\ n <= server'.last
      BY <1>1, <3>3, SessionTypes
    <3>5. /\ jar.gen <= server'.last
          /\ \A t \in Tabs : tab[t].seen <= server'.last /\ tab[t].got <= server'.last
          /\ \A d \in Calls : Unopened(d) => call[d].got <= server'.last
      BY <3>1, Carried
    <3> QED
      BY <1>2, <2>1, <2>3, <3>1, <3>2, <3>4, <3>5 DEF Numbered, Unopened
  <2>4. CASE /\ server' = [server EXCEPT !.alive = @ \ {server.origin[call[c].gen]}]
             /\ call[c].kind # "login"
    <3>1. /\ server'.last = server.last /\ server'.origin = server.origin
          /\ server'.alive \subseteq server.alive
      BY <2>4, KilledIs, SessionTypes DEF Server
    <3>2. Originated'
      BY <1>1, <3>1, NumberedKill
    <3> QED
      BY <1>2, <2>1, <2>4, <3>1, <3>2 DEF Numbered, Unopened
  <2> QED
    BY <1>4, <2>2, <2>3, <2>4, ServeIs
<1>5. ASSUME NEW t \in Tabs, ServeRefresh(t)
      PROVE  Numbered'
  <2>1. /\ UNCHANGED <<jar, call>> /\ tab'[t].seen = tab[t].seen
        /\ \A u \in Tabs \ {t} : tab'[u] = tab[u]
    BY <1>5, ServeRefreshIs
  <2>2. CASE tab'[t].got = 0 /\ UNCHANGED server
    BY <1>2, <1>3, <2>1, <2>2 DEF Numbered, Unopened
  <2>3. CASE /\ server.last < MaxGen /\ server' = Rotated(server.origin[tab[t].seen])
             /\ tab'[t].got = NextGen
    <3>1. PICK s \in Gen : s = server.origin[tab[t].seen] /\ s <= server.last
      BY <1>1, SessionTypes DEF Originated
    <3>2. Originated' /\ server'.last \in Nat /\ server.last <= server'.last
      BY <1>1, <2>3, <3>1, NumberedRotation
    <3>3. PICK n \in Gen : n = NextGen /\ server'.last = n
      BY <2>3, <3>1, RotatedIs
    <3>4. n <= server'.last
      BY <3>3, SessionTypes
    <3>5. /\ jar.gen <= server'.last
          /\ \A u \in Tabs : tab[u].seen <= server'.last /\ tab[u].got <= server'.last
          /\ \A d \in Calls : Unopened(d) => call[d].got <= server'.last
      BY <3>2, Carried
    <3> QED
      BY <1>2, <2>1, <2>3, <3>2, <3>3, <3>4, <3>5 DEF Numbered, Unopened
  <2>4. CASE /\ server' = [server EXCEPT !.alive = @ \ {server.origin[tab[t].seen]},
                                         !.alarm = TRUE]
             /\ tab'[t].got = 0
    <3>1. /\ server'.last = server.last /\ server'.origin = server.origin
          /\ server'.alive \subseteq server.alive
      BY <2>4, KilledIs, SessionTypes DEF Server
    <3>2. Originated'
      BY <1>1, <3>1, NumberedKill
    <3> QED
      BY <1>2, <2>1, <2>4, <3>1, <3>2 DEF Numbered, Unopened
  <2> QED
    BY <1>5, <2>2, <2>3, <2>4, ServeRefreshIs
<1>6. ASSUME UNCHANGED server, jar'.gen <= server.last,
             \A t \in Tabs : tab'[t].seen <= server.last /\ tab'[t].got <= server.last,
             \A d \in Calls : Unopened(d)' => call'[d] = call[d]
      PROVE  Numbered'
  BY <1>2, <1>3, <1>6 DEF Numbered, Unopened
<1>7. ASSUME NEW c \in Calls, Succeed(c)
      PROVE  Numbered'
  <2>1. PICK t \in Tabs : t = call[c].tab
    BY SessionTypes
  <2>2. jar'.gen \in {jar.gen, 0} \/ (Unopened(c) /\ jar'.gen = call[c].got)
    BY <1>7, <2>1, SucceedIs DEF Taken, Unopened
  <2>3. /\ UNCHANGED server /\ call'[c].pc = "idle"
        /\ \A d \in Calls \ {c} : call'[d] = call[d]
        /\ \A u \in Tabs : tab'[u].seen = tab[u].seen /\ tab'[u].got = tab[u].got
    BY ZenonT(60), <1>7, <2>1, SucceedIs DEF Taken
  <2> QED
    BY <1>2, <1>6, <2>2, <2>3 DEF Unopened
<1>8. ASSUME NEW c \in Calls, Retry(c)
      PROVE  Numbered'
  <2>1. PICK t \in Tabs : t = call[c].tab
    BY SessionTypes
  <2>2. /\ UNCHANGED <<jar, server>> /\ call'[c].pc = "waiting"
        /\ \A d \in Calls \ {c} : call'[d] = call[d]
        /\ \A u \in Tabs : tab'[u].seen \in {tab[u].seen, jar.gen} /\ tab'[u].got = tab[u].got
    BY <1>8, <2>1, RetryIs
  <2> QED
    BY <1>2, <1>6, <2>2 DEF Unopened
<1>9. ASSUME NEW c \in Calls, Desist(c)
      PROVE  Numbered'
  <2>1. PICK t \in Tabs : t = call[c].tab
    BY SessionTypes
  <2>2. /\ UNCHANGED <<jar, server>> /\ call'[c].pc = "idle"
        /\ \A d \in Calls \ {c} : call'[d] = call[d]
        /\ \A u \in Tabs : tab'[u].seen = tab[u].seen /\ tab'[u].got = tab[u].got
    BY <1>9, <2>1, DesistIs
  <2> QED
    BY <1>2, <1>6, <2>2 DEF Unopened
<1>10. ASSUME NEW c \in Calls, NEW t \in Tabs, NEW kind \in Kind, Send(t, c, kind)
       PROVE  Numbered'
  BY <1>2, <1>6, <1>10, SendIs DEF Unopened
<1>11. ASSUME NEW c \in Calls, Lose(c)
       PROVE  Numbered'
  BY <1>2, <1>6, <1>11, LoseIs DEF Unopened
<1>12. ASSUME NEW t \in Tabs, Refreshed(t)
       PROVE  Numbered'
  <2>1. /\ UNCHANGED server /\ jar'.gen = tab[t].got
        /\ \A u \in Tabs : /\ tab'[u].seen \in {tab[u].seen, 0}
                           /\ tab'[u].got \in {tab[u].got, 0}
        /\ \A d \in Calls : call'[d].pc # "sent" => call'[d] = call[d]
    BY <1>12, RefreshedIs
  <2> QED
    BY <1>2, <1>6, <2>1 DEF Unopened
<1>13. ASSUME NEW t \in Tabs, Expired(t)
       PROVE  Numbered'
  <2>1. /\ UNCHANGED <<jar, server>>
        /\ \A u \in Tabs : /\ tab'[u].seen \in {tab[u].seen, 0}
                           /\ tab'[u].got \in {tab[u].got, 0}
        /\ \A d \in Calls : call'[d].pc # "idle" => call'[d] = call[d]
    BY <1>13, ExpiredIs
  <2> QED
    BY <1>2, <1>6, <2>1 DEF Unopened
<1>14. ASSUME NEW t \in Tabs, Reload(t)
       PROVE  Numbered'
  <2>1. /\ UNCHANGED <<jar, server>>
        /\ \A u \in Tabs : /\ tab'[u].seen \in {tab[u].seen, 0}
                           /\ tab'[u].got \in {tab[u].got, 0}
        /\ \A d \in Calls : call'[d].pc # "idle" => call'[d] = call[d]
    BY <1>14, LoadedIs DEF Reload
  <2> QED
    BY <1>2, <1>6, <2>1 DEF Unopened
<1>15. ASSUME NEW t \in Tabs, LoseRefresh(t)
       PROVE  Numbered'
  <2>1. /\ UNCHANGED <<jar, server, call>>
        /\ \A u \in Tabs : /\ tab'[u].seen \in {tab[u].seen, 0}
                           /\ tab'[u].got \in {tab[u].got, 0}
    BY <1>15, LoseRefreshIs
  <2> QED
    BY <1>2, <1>6, <2>1
<1>16. CASE Expire
  BY <1>2, <1>6, <1>16, ExpireIs
<1>17. CASE UNCHANGED apiVars
  BY <1>2, <1>6, <1>17 DEF apiVars
<1>18. QED
  BY <1>4, <1>5, <1>7, <1>8, <1>9, <1>10, <1>11, <1>12, <1>13, <1>14, <1>15, <1>16, <1>17
     DEF ApiNext

\* Steps that bring no token and let no request out.
LEMMA TokensKept ==
  ASSUME HasToken, TokenMatches, Refused, jar'.gen = jar.gen,
         \A t \in Tabs : /\ tab'[t].overtaken = tab[t].overtaken
                         /\ \/ tab'[t].user = tab[t].user /\ tab'[t].csrf = tab[t].csrf
                            \/ ~tab'[t].user /\ tab'[t].csrf = 0,
         \A c \in Calls : call'[c] = call[c] \/ call'[c].pc \in {"idle", "waiting"}
  PROVE  HasToken' /\ TokenMatches' /\ Refused'
<1>1. HasToken'
  BY DEF HasToken
<1>2. TokenMatches'
  BY DEF TokenMatches
<1>3. Refused'
  BY DEF Refused
<1>4. QED
  BY <1>1, <1>2, <1>3

LEMMA TokensServed ==
  ASSUME ApiTypeOK, Numbered, HasToken, TokenMatches, Refused, NEW c \in Calls, Serve(c)
  PROVE  HasToken' /\ TokenMatches' /\ Refused'
<1>1. /\ UNCHANGED <<jar, tab>> /\ call[c].pc = "sent" /\ call'[c].pc = "answered"
      /\ call'[c].kind = call[c].kind
      /\ \A d \in Calls \ {c} : call'[d] = call[d]
  BY ServeIs
<1>2. \A g \in Gen : Alive(g) => g # 0
  BY DEF Alive, Numbered, Originated
<1>3. HasToken'
  <2>1. call[c].kind = "me" /\ call'[c].code = 200 => call'[c].got # 0
    BY <1>2, ServeIs, SessionTypes
  <2> QED
    BY <1>1, <2>1 DEF HasToken
<1>4. TokenMatches'
  BY <1>1 DEF TokenMatches
<1>5. Refused'
  <2>1. SUFFICES ASSUME Lone, NEW t \in Tabs, ~tab[t].overtaken, call'[c].code = 403
                 PROVE  FALSE
    BY <1>1 DEF Refused
  <2>2. call[c].kind = "mutate" /\ Alive(call[c].gen) /\ ~Matches(call[c])
    BY <2>1, ServeIs
  <2>3. call[c].header = call[c].gen /\ call[c].gen # 0
    BY <1>1, <1>2, <2>1, <2>2, SessionTypes DEF TokenMatches
  <2> QED
    BY <2>2, <2>3 DEF Matches
<1>6. QED
  BY <1>3, <1>4, <1>5

LEMMA TokensTaken ==
  ASSUME ApiTypeOK, Numbered, HasToken, TokenMatches, Refused,
         NEW c \in Calls, NEW t \in Tabs, t = call[c].tab, Succeed(c)
  PROVE  HasToken' /\ TokenMatches' /\ Refused'
<1>0. Taken(c, t)
  BY SucceedIs
<1>1. /\ call[c].pc = "answered" /\ call[c].code = 200 /\ call'[c].pc = "idle"
      /\ \A d \in Calls \ {c} : call'[d] = call[d]
      /\ \A u \in Tabs \ {t} : tab'[u] = tab[u]
  BY <1>0 DEF Taken
<1>2. CASE /\ call[c].kind = "me" /\ jar' = jar /\ tab'[t].csrf = call[c].got
           /\ ~tab'[t].overtaken => ~tab[t].overtaken /\ call[c].got = jar.gen
  <2>1. HasToken'
    BY <1>1, <1>2 DEF HasToken
  <2>2. TokenMatches' /\ Refused'
    BY <1>1, <1>2 DEF TokenMatches, Refused
  <2> QED
    BY <2>1, <2>2
<1>3. CASE /\ call[c].kind = "login" /\ jar'.gen = call[c].got
           /\ tab'[t].csrf = call[c].got /\ tab'[t].overtaken = tab[t].overtaken
  <2>1. call[c].got # 0
    BY <1>1, <1>3 DEF Numbered, Unopened
  <2>2. HasToken'
    BY <1>1, <1>3, <2>1 DEF HasToken
  <2>3. TokenMatches' /\ Refused'
    BY <1>1, <1>3 DEF TokenMatches, Refused, Lone
  <2> QED
    BY <2>2, <2>3
<1>4. CASE /\ call[c].kind = "logout" /\ jar'.gen = 0 /\ tab'[t].csrf = 0
           /\ tab'[t].user = FALSE /\ tab'[t].overtaken = tab[t].overtaken
  <2>1. HasToken'
    BY <1>1, <1>4 DEF HasToken
  <2>2. TokenMatches' /\ Refused'
    BY <1>1, <1>4 DEF TokenMatches, Refused, Lone
  <2> QED
    BY <2>1, <2>2
<1>5. CASE call[c].kind = "mutate" /\ jar' = jar /\ tab' = tab
  BY <1>1, <1>5, TokensKept
<1>6. QED
  BY <1>2, <1>3, <1>4, <1>5, <1>0 DEF Taken

LEMMA TokensSent ==
  ASSUME ApiTypeOK, HasToken, TokenMatches, Refused,
         NEW c \in Calls, NEW t \in Tabs, NEW kind \in Kind, Send(t, c, kind)
  PROVE  HasToken' /\ TokenMatches' /\ Refused'
<1>1. /\ UNCHANGED <<jar, tab>> /\ call'[c].pc = "sent" /\ call'[c].kind = kind
      /\ call'[c].gen = jar.gen /\ call'[c].header = Header(t)
      /\ kind = "mutate" => tab[t].user
      /\ \A d \in Calls \ {c} : call'[d] = call[d]
  BY SendIs
<1>2. HasToken' /\ Refused'
  BY <1>1 DEF HasToken, Refused
<1>3. TokenMatches'
  <2>1. ASSUME Lone, NEW u \in Tabs, ~tab[u].overtaken, kind = "mutate"
        PROVE  Header(t) = jar.gen
    BY <1>1, <2>1 DEF HasToken, TokenMatches, Lone, Header
  <2> QED
    BY <1>1, <2>1 DEF TokenMatches
<1>4. QED
  BY <1>2, <1>3

LEMMA TokensRefreshed ==
  ASSUME ApiTypeOK, HasToken, TokenMatches, Refused, NEW t \in Tabs, Refreshed(t)
  PROVE  HasToken' /\ TokenMatches' /\ Refused'
<1>1. /\ tab[t].got # 0 /\ jar'.gen = tab[t].got /\ tab'[t].csrf = tab[t].got
      /\ tab'[t].overtaken = tab[t].overtaken
      /\ \A u \in Tabs \ {t} : tab'[u] = tab[u]
      /\ \A c \in Calls : \/ call'[c] = call[c]
                          \/ call'[c].pc = "sent" /\ call'[c].header = call'[c].gen
  BY RefreshedIs
<1>2. HasToken'
  BY <1>1 DEF HasToken
<1>3. TokenMatches'
  BY <1>1 DEF TokenMatches, Lone
<1>4. Refused'
  BY <1>1 DEF Refused
<1>5. QED
  BY <1>2, <1>3, <1>4

LEMMA TokensStep ==
  ASSUME ApiTypeOK, Numbered, HasToken, TokenMatches, Refused, [ApiNext]_apiVars
  PROVE  HasToken' /\ TokenMatches' /\ Refused'
<1>1. ASSUME NEW c \in Calls, Serve(c)
      PROVE  HasToken' /\ TokenMatches' /\ Refused'
  BY <1>1, TokensServed
<1>2. ASSUME NEW c \in Calls, Succeed(c)
      PROVE  HasToken' /\ TokenMatches' /\ Refused'
  <2>1. PICK t \in Tabs : t = call[c].tab
    BY SessionTypes
  <2> QED
    BY <1>2, <2>1, TokensTaken
<1>3. ASSUME NEW c \in Calls, Retry(c)
      PROVE  HasToken' /\ TokenMatches' /\ Refused'
  <2>1. PICK t \in Tabs : t = call[c].tab
    BY SessionTypes
  <2>2. /\ jar'.gen = jar.gen
        /\ \A u \in Tabs : /\ tab'[u].overtaken = tab[u].overtaken
                           /\ tab'[u].user = tab[u].user /\ tab'[u].csrf = tab[u].csrf
        /\ \A d \in Calls : call'[d] = call[d] \/ call'[d].pc \in {"idle", "waiting"}
    BY <1>3, <2>1, RetryIs
  <2> QED
    BY <2>2, TokensKept
<1>4. ASSUME NEW c \in Calls, Desist(c)
      PROVE  HasToken' /\ TokenMatches' /\ Refused'
  <2>1. PICK t \in Tabs : t = call[c].tab
    BY SessionTypes
  <2>2. /\ jar'.gen = jar.gen
        /\ \A u \in Tabs : /\ tab'[u].overtaken = tab[u].overtaken
                           /\ tab'[u].user = tab[u].user /\ tab'[u].csrf = tab[u].csrf
        /\ \A d \in Calls : call'[d] = call[d] \/ call'[d].pc \in {"idle", "waiting"}
    BY <1>4, <2>1, DesistIs
  <2> QED
    BY <2>2, TokensKept
<1>5. ASSUME NEW c \in Calls, NEW t \in Tabs, NEW kind \in Kind, Send(t, c, kind)
      PROVE  HasToken' /\ TokenMatches' /\ Refused'
  BY <1>5, TokensSent
<1>6. ASSUME NEW c \in Calls, Lose(c)
      PROVE  HasToken' /\ TokenMatches' /\ Refused'
  <2>1. /\ jar' = jar /\ tab' = tab
        /\ \A d \in Calls : call'[d] = call[d] \/ call'[d].pc \in {"idle", "waiting"}
    BY <1>6, LoseIs
  <2> QED
    BY <2>1, TokensKept
<1>7. ASSUME NEW t \in Tabs, ServeRefresh(t)
      PROVE  HasToken' /\ TokenMatches' /\ Refused'
  <2>1. /\ jar' = jar /\ call' = call
        /\ \A u \in Tabs : /\ tab'[u].overtaken = tab[u].overtaken
                           /\ tab'[u].user = tab[u].user /\ tab'[u].csrf = tab[u].csrf
    BY <1>7, ServeRefreshIs
  <2> QED
    BY <2>1, TokensKept
<1>8. ASSUME NEW t \in Tabs, Refreshed(t)
      PROVE  HasToken' /\ TokenMatches' /\ Refused'
  BY <1>8, TokensRefreshed
<1>9. ASSUME NEW t \in Tabs, Expired(t) \/ Reload(t)
      PROVE  HasToken' /\ TokenMatches' /\ Refused'
  <2>1. /\ jar' = jar
        /\ \A u \in Tabs : /\ tab'[u].overtaken = tab[u].overtaken
                           /\ \/ tab'[u].user = tab[u].user /\ tab'[u].csrf = tab[u].csrf
                              \/ ~tab'[u].user /\ tab'[u].csrf = 0
        /\ \A d \in Calls : call'[d] = call[d] \/ call'[d].pc = "idle"
    BY <1>9, ExpiredIs, LoadedIs DEF Reload
  <2> QED
    BY <2>1, TokensKept
<1>10. ASSUME NEW t \in Tabs, LoseRefresh(t)
       PROVE  HasToken' /\ TokenMatches' /\ Refused'
  <2>1. /\ jar' = jar /\ call' = call
        /\ \A u \in Tabs : /\ tab'[u].overtaken = tab[u].overtaken
                           /\ tab'[u].user = tab[u].user /\ tab'[u].csrf = tab[u].csrf
    BY <1>10, LoseRefreshIs
  <2> QED
    BY <2>1, TokensKept
<1>11. CASE Expire
  BY <1>11, ExpireIs, TokensKept
<1>12. CASE UNCHANGED apiVars
  BY <1>12, TokensKept DEF apiVars
<1>13. QED
  BY <1>1, <1>2, <1>3, <1>4, <1>5, <1>6, <1>7, <1>8, <1>9, <1>10, <1>11, <1>12
     DEF ApiNext

-----------------------------------------------------------------------------
(* ApiClient: a lone tab on a reliable network *)

\* Steps that bring no cookie and start no refresh.
LEMMA QuietKept ==
  ASSUME Numbered, Quiet, UNCHANGED steady, jar'.gen = jar.gen,
         server'.alarm = server.alarm,
         server'.origin = server.origin, server'.latest = server.latest,
         server'.alive \subseteq server.alive,
         steady => \A t \in Tabs :
           \/ /\ tab'[t].refresh = tab[t].refresh /\ tab'[t].seen = tab[t].seen
              /\ tab'[t].got = tab[t].got
           \/ /\ ~InPlace(t) /\ tab'[t].refresh = "none" /\ tab'[t].seen = 0
              /\ tab'[t].got = 0,
         \A c \in Calls : Unopened(c)' => call'[c] = call[c]
  PROVE  Quiet'
<1> SUFFICES ASSUME Lone, steady
             PROVE  /\ ~server'.alarm
                    /\ \A t \in Tabs : QuietTab(t)'
                    /\ \A c \in Calls : QuietCall(c)'
  BY DEF Quiet
<1>1. /\ ~server.alarm
      /\ \A t \in Tabs : QuietTab(t)
      /\ \A c \in Calls : QuietCall(c)
  BY DEF Quiet
<1>2. ASSUME NEW t \in Tabs
      PROVE  QuietTab(t)'
  BY <1>1 DEF QuietTab, InPlace, Current, Alive
<1>3. ASSUME NEW c \in Calls
      PROVE  QuietCall(c)'
  <2> SUFFICES ASSUME Unopened(c)'
               PROVE  QuietCall(c)'
    BY DEF QuietCall
  <2>1. call'[c] = call[c] /\ Unopened(c)
    BY DEF Unopened
  <2>2. /\ Current(call[c].got) /\ call[c].got # jar.gen /\ call[c].got # 0
        /\ \A t \in Tabs : call[c].got # tab[t].seen /\ call[c].got # tab[t].got
        /\ \A d \in Calls \ {c} : Unopened(d) => call[c].got # call[d].got
    BY <1>1, <2>1 DEF QuietCall, Numbered
  <2>3. Current(call[c].got)'
    BY <2>1, <2>2 DEF Current, Alive
  <2>4. \A t \in Tabs : call'[c].got # tab'[t].seen /\ call'[c].got # tab'[t].got
    BY <2>1, <2>2
  <2>5. \A d \in Calls \ {c} : Unopened(d)' => call'[c].got # call'[d].got
    BY <2>1, <2>2 DEF Unopened
  <2> QED
    BY <2>1, <2>2, <2>3, <2>4, <2>5 DEF QuietCall
<1>4. QED
  BY <1>1, <1>2, <1>3

\* A login is answered.
LEMMA QuietIssue ==
  ASSUME ApiTypeOK, Numbered, Quiet, NEW c \in Calls, Serve(c),
         server.last < MaxGen, server' = Issued, call[c].kind = "login",
         call'[c].got = NextGen
  PROVE  Quiet'
<1>1. /\ UNCHANGED <<jar, tab, steady>>
      /\ \A d \in Calls \ {c} : call'[d] = call[d]
  BY ServeIs
<1>2. PICK n \in Gen : n = NextGen
  BY IssuedIs
<1>3. /\ server'.alarm = server.alarm /\ server'.alive = server.alive \cup {n}
      /\ \A g \in Gen \ {n} : /\ server'.origin[g] = server.origin[g]
                              /\ server'.latest[g] = server.latest[g]
      /\ server'.origin[n] = n /\ server'.latest[n] = n
  BY <1>2, IssuedIs
<1>4. n = server.last + 1
  BY <1>2, IssuedIs
<1>5. \A g \in Gen : g <= server.last => g # n
  BY <1>4, SessionTypes
<1>6. ASSUME NEW g \in Gen, g <= server.last, Current(g)
      PROVE  Current(g)'
  <2>1. server.origin[g] # n /\ server.origin[g] \in Gen /\ g # n
    BY <1>5, <1>6, SessionTypes DEF Numbered, Originated
  <2> QED
    BY <1>3, <1>6, <2>1 DEF Current, Alive
<1>7. Current(n)'
  BY <1>3 DEF Current, Alive
<1>8. /\ jar.gen # n /\ jar.gen \in Gen /\ jar.gen <= server.last
      /\ \A t \in Tabs : /\ tab[t].seen # n /\ tab[t].seen \in Gen /\ tab[t].seen <= server.last
                         /\ tab[t].got # n /\ tab[t].got \in Gen /\ tab[t].got <= server.last
      /\ \A d \in Calls : Unopened(d) =>
           call[d].got # n /\ call[d].got \in Gen /\ call[d].got <= server.last
  BY <1>5, SessionTypes DEF Numbered
<1> SUFFICES ASSUME Lone, steady
             PROVE  /\ ~server'.alarm
                    /\ \A t \in Tabs : QuietTab(t)'
                    /\ \A d \in Calls : QuietCall(d)'
  BY <1>1 DEF Quiet
<1>9. /\ ~server.alarm
      /\ \A t \in Tabs : QuietTab(t)
      /\ \A d \in Calls : QuietCall(d)
  BY DEF Quiet
<1>10. ASSUME NEW t \in Tabs
       PROVE  QuietTab(t)'
  <2>1. Current(tab[t].seen) => Current(tab[t].seen)'
    BY <1>1, <1>6, <1>8
  <2>2. Current(tab[t].got) => Current(tab[t].got)'
    BY <1>1, <1>6, <1>8
  <2>3. Current(jar.gen) => Current(jar.gen)'
    BY <1>1, <1>6, <1>8
  <2> QED
    BY <1>1, <1>9, <2>1, <2>2, <2>3 DEF QuietTab, InPlace
<1>11. ASSUME NEW d \in Calls
       PROVE  QuietCall(d)'
  <2>1. CASE d = c
    BY <1>1, <1>2, <1>7, <1>8, <2>1 DEF QuietCall, Unopened
  <2>2. CASE d # c
    BY <1>1, <1>2, <1>6, <1>8, <1>9, <2>2 DEF QuietCall, Unopened
  <2> QED
    BY <2>1, <2>2
<1>12. QED
  BY <1>3, <1>9, <1>10, <1>11

\* A refresh is answered: the token it was sent with was the last one of its
\* session, so the session rotates, and no other token of the tab's is of it.
LEMMA QuietAnswer ==
  ASSUME ApiTypeOK, Numbered, Quiet, NEW t \in Tabs, ServeRefresh(t)
  PROVE  Quiet'
<1>1. /\ UNCHANGED <<jar, call, steady>> /\ tab[t].refresh = "sent"
      /\ tab'[t].refresh = "answered" /\ tab'[t].seen = tab[t].seen
  BY ServeRefreshIs
<1> SUFFICES ASSUME Lone, steady
             PROVE  /\ ~server'.alarm
                    /\ \A u \in Tabs : QuietTab(u)'
                    /\ \A d \in Calls : QuietCall(d)'
  BY <1>1 DEF Quiet
<1>2. /\ ~server.alarm /\ QuietTab(t) /\ ~InPlace(t)
      /\ \A d \in Calls : QuietCall(d)
      /\ \A u \in Tabs : u = t
  BY <1>1 DEF Quiet, Lone, InPlace
<1>3. Current(tab[t].seen) /\ Current(jar.gen)
  BY <1>1, <1>2 DEF QuietTab
<1>4. CASE ~Alive(tab[t].seen) /\ tab'[t].got = 0 /\ UNCHANGED server
  <2>1. QuietTab(t)'
    BY <1>1, <1>3, <1>4 DEF QuietTab, InPlace, Current, Alive
  <2>2. ASSUME NEW d \in Calls
        PROVE  QuietCall(d)'
    BY <1>1, <1>2, <1>4 DEF QuietCall, Unopened, Current, Alive, Numbered
  <2> QED
    BY <1>2, <1>4, <2>1, <2>2
<1>5. CASE /\ Alive(tab[t].seen) /\ tab'[t].got = NextGen
           /\ server.latest[server.origin[tab[t].seen]] = tab[t].seen
           /\ server.last < MaxGen /\ server' = Rotated(server.origin[tab[t].seen])
  <2>1. PICK s \in Gen : s = server.origin[tab[t].seen]
    BY SessionTypes
  <2>2. PICK n \in Gen : n = NextGen
    BY <1>5, <2>1, RotatedIs
  <2>3. /\ server'.alarm = server.alarm /\ server'.alive = server.alive
        /\ \A g \in Gen \ {n} : server'.origin[g] = server.origin[g]
        /\ \A g \in Gen \ {s} : server'.latest[g] = server.latest[g]
        /\ server'.origin[n] = s /\ server'.latest[s] = n
    BY <1>5, <2>1, <2>2, RotatedIs
  <2>4. n = server.last + 1
    BY <1>5, <2>1, <2>2, RotatedIs
  <2>5. \A g \in Gen : g <= server.last => g # n
    BY <2>4, SessionTypes
  <2>6. s \in server.alive /\ server.latest[s] = tab[t].seen
    BY <1>5, <2>1 DEF Alive
  <2>7. n # 0
    BY <2>4, SessionTypes
  <2>8. QuietTab(t)'
    BY <1>1, <1>5, <2>2, <2>3, <2>7 DEF QuietTab, InPlace, Current, Alive
  <2>9. ASSUME NEW d \in Calls, Unopened(d)
        PROVE  QuietCall(d)'
    <3>1. PICK g \in Gen : g = call[d].got
      BY SessionTypes
    <3>2. /\ Current(g) /\ g # jar.gen /\ g # tab[t].seen /\ g # n
          /\ \A e \in Calls \ {d} : Unopened(e) => g # call[e].got
      BY <1>2, <2>5, <2>9, <3>1 DEF QuietCall, Numbered
    <3>3. Alive(g) => server.origin[g] # s /\ server.origin[g] \in Gen
      BY <2>6, <3>2, SessionTypes DEF Current
    <3>4. Current(g)'
      BY <2>3, <3>2, <3>3 DEF Current, Alive
    <3> QED
      BY <1>1, <1>2, <1>5, <2>2, <3>1, <3>2, <3>4 DEF QuietCall, Unopened
  <2>10. ASSUME NEW d \in Calls, ~Unopened(d)
         PROVE  QuietCall(d)'
    BY <1>1, <2>10 DEF QuietCall, Unopened
  <2> QED
    BY <1>2, <2>3, <2>8, <2>9, <2>10
<1>6. CASE /\ Alive(tab[t].seen)
           /\ server.latest[server.origin[tab[t].seen]] # tab[t].seen
  BY <1>3, <1>6 DEF Current
<1>7. QED
  BY <1>4, <1>5, <1>6, ServeRefreshIs

\* Cookies arrive with an answer: those of a login, or none after a logout.
LEMMA QuietTaken ==
  ASSUME ApiTypeOK, Numbered, Quiet, NEW c \in Calls, NEW t \in Tabs, Taken(c, t)
  PROVE  Quiet'
<1>1. /\ UNCHANGED <<server, steady>>
      /\ call[c].pc = "answered" /\ call'[c].pc = "idle"
      /\ \A d \in Calls \ {c} : call'[d] = call[d]
      /\ \A u \in Tabs : /\ tab'[u].refresh = tab[u].refresh /\ tab'[u].seen = tab[u].seen
                         /\ tab'[u].got = tab[u].got
  BY DEF Taken
<1>2. CASE jar'.gen = jar.gen
  BY <1>1, <1>2, QuietKept DEF Unopened
<1>3. ASSUME Lone, steady, NEW g, jar'.gen = g, Current(g),
             \A d \in Calls \ {c} : Unopened(d) => call[d].got # g
      PROVE  Quiet'
  <2>1. /\ ~server.alarm
        /\ \A u \in Tabs : QuietTab(u)
        /\ \A d \in Calls : QuietCall(d)
    BY <1>3 DEF Quiet
  <2>2. ASSUME NEW u \in Tabs
        PROVE  QuietTab(u)'
    BY <1>1, <1>3, <2>1 DEF QuietTab, InPlace, Current, Alive
  <2>3. ASSUME NEW d \in Calls
        PROVE  QuietCall(d)'
    BY <1>1, <1>3, <2>1 DEF QuietCall, Unopened, Current, Alive
  <2> QED
    BY <1>1, <2>1, <2>2, <2>3 DEF Quiet
<1>4. CASE call[c].kind = "login" /\ jar'.gen = call[c].got
  <2> SUFFICES ASSUME Lone, steady
               PROVE  Quiet'
    BY <1>1 DEF Quiet
  <2>1. PICK g : g = call[c].got
    OBVIOUS
  <2>2. Unopened(c) /\ QuietCall(c) /\ \A d \in Calls : QuietCall(d)
    BY <1>1, <1>4 DEF Unopened, Quiet
  <2>3. Current(g) /\ \A d \in Calls \ {c} : Unopened(d) => call[d].got # g
    BY <2>1, <2>2 DEF QuietCall
  <2> QED
    BY <1>3, <1>4, <2>1, <2>3
<1>5. CASE jar'.gen = 0
  <2> SUFFICES ASSUME Lone, steady
               PROVE  Quiet'
    BY <1>1 DEF Quiet
  <2>1. Current(0)
    BY DEF Current, Alive, Numbered, Originated
  <2>2. \A d \in Calls \ {c} : Unopened(d) => call[d].got # 0
    BY DEF Numbered
  <2> QED
    BY <1>3, <1>5, <2>1, <2>2
<1>6. QED
  BY <1>2, <1>4, <1>5 DEF Taken

\* A refresh starts, with the cookie the jar holds.
LEMMA QuietRetry ==
  ASSUME ApiTypeOK, Numbered, Quiet, NEW c \in Calls, NEW t \in Tabs, t = call[c].tab,
         Retry(c)
  PROVE  Quiet'
<1>1. /\ UNCHANGED <<jar, server, steady>> /\ call'[c].pc = "waiting"
      /\ \A d \in Calls \ {c} : call'[d] = call[d]
      /\ \A u \in Tabs \ {t} : tab'[u] = tab[u]
      /\ tab'[t].got = tab[t].got
      /\ \/ tab' = tab
         \/ /\ tab[t].refresh = "none" /\ tab'[t].refresh = "sent"
            /\ tab'[t].seen = jar.gen
  BY RetryIs
<1>2. CASE tab' = tab
  BY <1>1, <1>2, QuietKept DEF Unopened
<1>3. CASE /\ tab[t].refresh = "none" /\ tab'[t].refresh = "sent"
           /\ tab'[t].seen = jar.gen
  <2> SUFFICES ASSUME Lone, steady
               PROVE  Quiet'
    BY <1>1 DEF Quiet
  <2>1. /\ ~server.alarm
        /\ \A u \in Tabs : QuietTab(u)
        /\ \A d \in Calls : QuietCall(d)
    BY DEF Quiet
  <2>2. QuietTab(t)'
    BY <1>1, <1>3, <2>1 DEF QuietTab, InPlace, Current, Alive
  <2>3. ASSUME NEW u \in Tabs \ {t}
        PROVE  QuietTab(u)'
    BY ZenonT(60), <1>1, <2>1 DEF QuietTab, InPlace, Current, Alive
  <2>4. ASSUME NEW d \in Calls
        PROVE  QuietCall(d)'
    BY <1>1, <1>3, <2>1 DEF QuietCall, Unopened, Current, Alive
  <2> QED
    BY <1>1, <2>1, <2>2, <2>3, <2>4 DEF Quiet
<1>4. QED
  BY <1>1, <1>2, <1>3

\* The cookies of a rotation reach the jar.
LEMMA QuietRefreshed ==
  ASSUME ApiTypeOK, Numbered, Quiet, NEW t \in Tabs, Refreshed(t)
  PROVE  Quiet'
<1>1. /\ UNCHANGED <<server, steady>> /\ InPlace(t)
      /\ jar'.gen = tab[t].got /\ tab'[t].refresh = "none"
      /\ tab'[t].seen = 0 /\ tab'[t].got = 0
  BY RefreshedIs DEF InPlace
<1>2. \A d \in Calls : Unopened(d)' => call'[d] = call[d] /\ Unopened(d)
  BY RefreshedIs DEF Unopened
<1> SUFFICES ASSUME Lone, steady
             PROVE  /\ ~server'.alarm
                    /\ \A u \in Tabs : QuietTab(u)'
                    /\ \A d \in Calls : QuietCall(d)'
  BY <1>1 DEF Quiet
<1>3. /\ ~server.alarm /\ QuietTab(t)
      /\ \A d \in Calls : QuietCall(d)
      /\ \A u \in Tabs : u = t
  BY DEF Quiet, Lone
<1>4. QuietTab(t)'
  BY <1>1, <1>3 DEF QuietTab, InPlace, Current, Alive
<1>5. ASSUME NEW d \in Calls, Unopened(d)'
      PROVE  QuietCall(d)'
  <2>1. call'[d] = call[d] /\ Unopened(d) /\ QuietCall(d) /\ call[d].got # 0
    BY <1>2, <1>3, <1>5 DEF Numbered
  <2>2. Current(call[d].got)'
    BY <1>1, <2>1 DEF QuietCall, Current, Alive
  <2>3. \A e \in Calls \ {d} : Unopened(e)' => call'[d].got # call'[e].got
    BY <1>2, <2>1 DEF QuietCall
  <2>4. call'[d].got # jar'.gen
    BY <1>1, <2>1 DEF QuietCall
  <2>5. \A u \in Tabs : call'[d].got # tab'[u].seen /\ call'[d].got # tab'[u].got
    BY <1>1, <1>3, <2>1
  <2> QED
    BY <2>2, <2>3, <2>4, <2>5 DEF QuietCall
<1>6. ASSUME NEW d \in Calls
      PROVE  QuietCall(d)'
  BY <1>5 DEF QuietCall
<1>7. QED
  BY <1>1, <1>3, <1>4, <1>6

LEMMA QuietServed ==
  ASSUME ApiTypeOK, Numbered, Quiet, NEW c \in Calls, Serve(c)
  PROVE  Quiet'
<1>1. /\ UNCHANGED <<jar, tab, steady>> /\ call'[c].kind = call[c].kind
      /\ \A d \in Calls \ {c} : call'[d] = call[d]
      /\ \/ server' = server /\ call[c].kind # "login"
         \/ /\ server.last < MaxGen /\ server' = Issued /\ call[c].kind = "login"
            /\ call'[c].got = NextGen
         \/ /\ server' = [server EXCEPT !.alive = @ \ {server.origin[call[c].gen]}]
            /\ call[c].kind # "login"
  BY ServeIs
<1>2. CASE /\ server.last < MaxGen /\ server' = Issued /\ call[c].kind = "login"
           /\ call'[c].got = NextGen
  BY <1>2, QuietIssue
<1>3. CASE server' = server /\ call[c].kind # "login"
  BY <1>1, <1>3, QuietKept DEF Unopened
<1>4. CASE /\ server' = [server EXCEPT !.alive = @ \ {server.origin[call[c].gen]}]
           /\ call[c].kind # "login"
  <2>1. server.alarm \in BOOLEAN
    BY DEF ApiTypeOK, Server
  <2>2. /\ server'.origin = server.origin /\ server'.latest = server.latest
        /\ server'.alarm = server.alarm /\ server'.alive \subseteq server.alive
    BY <1>4, <2>1, KilledIs
  <2> QED
    BY <1>1, <1>4, <2>2, QuietKept DEF Unopened
<1>5. QED
  BY <1>1, <1>2, <1>3, <1>4

LEMMA QuietStep ==
  ASSUME ApiTypeOK, Numbered, Quiet, [ApiNext]_apiVars
  PROVE  Quiet'
<1>1. ASSUME NEW c \in Calls, Serve(c)
      PROVE  Quiet'
  BY <1>1, QuietServed
<1>2. ASSUME NEW c \in Calls, Succeed(c)
      PROVE  Quiet'
  <2>1. PICK t \in Tabs : t = call[c].tab
    BY SessionTypes
  <2>2. Taken(c, t)
    BY <1>2, <2>1, SucceedIs
  <2> QED
    BY <2>2, QuietTaken
<1>3. ASSUME NEW c \in Calls, Retry(c)
      PROVE  Quiet'
  <2>1. PICK t \in Tabs : t = call[c].tab
    BY SessionTypes
  <2> QED
    BY <1>3, <2>1, QuietRetry
<1>4. ASSUME NEW c \in Calls, Desist(c)
      PROVE  Quiet'
  <2>1. PICK t \in Tabs : t = call[c].tab
    BY SessionTypes
  <2>2. /\ UNCHANGED <<jar, server, steady>>
        /\ \A u \in Tabs : /\ tab'[u].refresh = tab[u].refresh /\ tab'[u].seen = tab[u].seen
                           /\ tab'[u].got = tab[u].got
        /\ \A d \in Calls : call'[d].pc # "idle" => call'[d] = call[d]
    BY <1>4, <2>1, DesistIs
  <2> QED
    BY <2>2, QuietKept DEF Unopened
<1>5. ASSUME NEW c \in Calls, NEW t \in Tabs, NEW kind \in Kind, Send(t, c, kind)
      PROVE  Quiet'
  <2>1. /\ UNCHANGED <<jar, server, tab, steady>>
        /\ \A d \in Calls : call'[d].pc # "sent" => call'[d] = call[d]
    BY <1>5, SendIs
  <2> QED
    BY <2>1, QuietKept DEF Unopened
<1>6. ASSUME NEW t \in Tabs, ServeRefresh(t)
      PROVE  Quiet'
  BY <1>6, QuietAnswer
<1>7. ASSUME NEW t \in Tabs, Refreshed(t)
      PROVE  Quiet'
  BY <1>7, QuietRefreshed
<1>8. ASSUME NEW t \in Tabs, Expired(t) \/ Reload(t)
      PROVE  Quiet'
  <2>1. /\ UNCHANGED <<jar, server, steady>>
        /\ steady => ~InPlace(t)
        /\ tab'[t].refresh = "none" /\ tab'[t].seen = 0 /\ tab'[t].got = 0
        /\ \A u \in Tabs \ {t} : tab'[u] = tab[u]
        /\ \A d \in Calls : call'[d].pc # "idle" => call'[d] = call[d]
    BY <1>8, ExpiredIs, LoadedIs DEF Reload, InPlace
  <2> QED
    BY <2>1, QuietKept DEF Unopened
<1>9. ASSUME ~steady, UNCHANGED steady
      PROVE  Quiet'
  BY <1>9 DEF Quiet
<1>10. CASE Expire
  BY <1>10, ExpireIs, QuietKept
<1>11. CASE UNCHANGED apiVars
  BY <1>11, QuietKept DEF apiVars
<1>12. ASSUME NEW c \in Calls, Lose(c)
       PROVE  Quiet'
  BY <1>9, <1>12 DEF Lose
<1>13. ASSUME NEW t \in Tabs, LoseRefresh(t)
       PROVE  Quiet'
  BY <1>9, <1>13 DEF LoseRefresh
<1>14. QED
  BY <1>1, <1>2, <1>3, <1>4, <1>5, <1>6, <1>7, <1>8, <1>10, <1>11, <1>12, <1>13
     DEF ApiNext

-----------------------------------------------------------------------------
(* ApiClient: the theorems *)

LEMMA ApiBegin == ApiInit => ApiIInv
<1> SUFFICES ASSUME ApiInit
             PROVE  ApiIInv
  OBVIOUS
<1>1. PICK t \in Tabs : call = [c \in Calls |-> Blank(t)]
  BY DEF ApiInit
<1>2. PICK blank \in Call : blank = Blank(t) /\ blank.pc = "idle"
  BY BlankIs
<1>3. call \in [Calls -> Call] /\ \A c \in Calls : call[c].pc = "idle"
  BY <1>1, <1>2
<1>4. jar \in Jar /\ jar.gen = 0
  BY GenIs DEF ApiInit, Jar
<1>5. /\ server \in Server /\ server.last = 0 /\ server.alive = {}
      /\ server.alarm = FALSE /\ \A g \in Gen : server.origin[g] = 0
  BY GenIs DEF ApiInit, Server
<1>6. /\ tab \in [Tabs -> Tab]
      /\ \A u \in Tabs : /\ tab[u].user = FALSE /\ tab[u].csrf = 0
                         /\ tab[u].refresh = "none" /\ tab[u].seen = 0 /\ tab[u].got = 0
  BY GenIs DEF ApiInit, Tab, Refreshing
<1>7. ApiTypeOK
  BY <1>3, <1>4, <1>5, <1>6 DEF ApiTypeOK, ApiInit
<1>8. Numbered
  BY <1>3, <1>4, <1>5, <1>6, GenIs DEF Numbered, Originated, Unopened
<1>9. HasToken /\ TokenMatches /\ Refused
  BY <1>3, <1>4, <1>6 DEF HasToken, TokenMatches, Refused
<1>10. Quiet
  BY <1>3, <1>4, <1>5, <1>6 DEF Quiet, QuietTab, QuietCall, Unopened, Current, Alive, InPlace
<1>11. QED
  BY <1>7, <1>8, <1>9, <1>10 DEF ApiIInv

\* The invariant of the browser and its sessions, for any number of tabs,
\* requests and generations, with CSRF cookies the page can or cannot read.
THEOREM ApiInvariance == ApiSpec => []ApiIInv
<1>1. ApiIInv /\ [ApiNext]_apiVars => ApiIInv'
  BY ApiTypes, NumberedStep, TokensStep, QuietStep DEF ApiIInv
<1>2. QED
  BY <1>1, ApiBegin, PTL DEF ApiSpec

\* The variables keep their types, and no request waits for a refresh that is
\* over: the queue behind refreshPromise (api-client.ts) is always let go.
THEOREM ApiTypeCorrect == ApiSpec => []ApiTypeOK
<1>1. ApiIInv => ApiTypeOK
  BY DEF ApiIInv
<1>2. QED
  BY <1>1, ApiInvariance, PTL

\* Both channels side by side.
THEOREM ClientsTypeCorrect == ClientsSpec => []TypesOK
  BY ApiTypeCorrect, RoomsTypeCorrect, PTL DEF ClientsSpec, TypesOK

\* One tab on a reliable network never presents a refresh token that was
\* rotated out, so reuse detection never ends a session by mistake.
THEOREM AlarmNeedsTwo == ApiSpec => []LoneTabRaisesNoAlarm
<1>1. ApiIInv => LoneTabRaisesNoAlarm
  BY DEF ApiIInv, Quiet, LoneTabRaisesNoAlarm
<1>2. QED
  BY <1>1, ApiInvariance, PTL

\* The CSRF guard refuses a lone tab only after a profile has arrived that a
\* refresh or a login had overtaken; losses of the network do not matter.
THEOREM RefusalNeedsOvertaking == ApiSpec => []RefusedOnlyIfOvertaken
<1>1. ApiIInv => RefusedOnlyIfOvertaken
  BY SessionTypes DEF ApiIInv, Refused, RefusedOnlyIfOvertaken
<1>2. QED
  BY <1>1, ApiInvariance, PTL

-----------------------------------------------------------------------------
(* Outbox: what the steps write *)

Handling == [change : Nat, found : BOOLEAN, targets : SUBSET Webhooks]
Job == [webhook : Webhooks, change : Nat, again : BOOLEAN]

OutboxTypes ==
  /\ changes \in Seq(Change)
  /\ request \in [Requests -> Handling]
  /\ since \in [Webhooks -> Nat \cup {NULL}]
  /\ waiting \in Seq(Job) /\ active \subseteq Job /\ failed \subseteq Job
  /\ arrived \in [Webhooks -> Seq(Nat)]
  /\ faults \in Nat /\ raced \in BOOLEAN

\* A request that is under way has a change.
Resting(q) == q.change = 0 => q = AtRest

LEMMA AtRestIs == AtRest \in Handling /\ AtRest.change = 0 /\ AtRest.targets = {}
  BY DEF AtRest, Handling

LEMMA OneRequest ==
  ASSUME OutboxTypes, NEW r \in Requests, NEW q \in Handling,
         request' = [request EXCEPT ![r] = q]
  PROVE  /\ request' \in [Requests -> Handling] /\ request'[r] = q
         /\ \A s \in Requests \ {r} : request'[s] = request[s]
  BY DEF OutboxTypes

LEMMA CommitIs ==
  ASSUME OutboxTypes, NEW r \in Requests, NEW c \in Change, Commit(r, c)
  PROVE  /\ UNCHANGED <<answered, hooks, queue, arrived, faults>>
         /\ request[r] = AtRest /\ Allowed(c) /\ status' = c.to
         /\ changes' = Append(changes, c) /\ changes' \in Seq(Change)
         /\ Len(changes) \in Nat /\ Len(changes') = Len(changes) + 1
         /\ \A n \in 1..Len(changes) : changes'[n] = changes[n]
         /\ changes'[Len(changes) + 1] = c
         /\ request' \in [Requests -> Handling]
         /\ \A s \in Requests \ {r} : request'[s] = request[s]
         /\ request'[r].change = Len(changes) + 1 /\ request'[r].targets = {}
         /\ request'[r].found <=> c.event \in Silent
         /\ raced' \in BOOLEAN
         /\ ~raced' => ~raced /\ \A s \in Requests : request[s] = AtRest
<1>1. PICK old \in Handling : old = request[r]
  BY DEF OutboxTypes
<1>2. PICK none \in BOOLEAN : none = (c.event \in Silent)
  <2>1. (c.event \in Silent) \in BOOLEAN
    OBVIOUS
  <2>2. QED
    BY <2>1
<1>3. Len(changes) + 1 \in Nat
  BY LenProperties DEF OutboxTypes
<1>4. PICK new : new = [old EXCEPT !.change = Len(changes) + 1, !.found = none]
  OBVIOUS
<1>5. /\ new \in Handling /\ new.change = Len(changes) + 1
      /\ new.found = none /\ new.targets = {}
  BY <1>1, <1>3, <1>4, AtRestIs DEF Handling, Commit
<1>6. request' = [request EXCEPT ![r] = new]
  BY <1>1, <1>2, <1>4 DEF OutboxTypes, Commit
<1>7. changes' = Append(changes, c) /\ changes \in Seq(Change)
  BY DEF Commit, OutboxTypes
<1>8. /\ changes' \in Seq(Change)
      /\ Len(changes) \in Nat /\ Len(changes') = Len(changes) + 1
      /\ \A n \in 1..Len(changes) : changes'[n] = changes[n]
      /\ changes'[Len(changes) + 1] = c
  BY <1>7, Lengthened
<1>9. QED
  BY <1>2, <1>5, <1>6, <1>7, <1>8, OneRequest DEF Commit, OutboxTypes

LEMMA FindIs ==
  ASSUME OutboxTypes, NEW r \in Requests, Find(r)
  PROVE  /\ UNCHANGED <<desk, hooks, queue, arrived, raced, faults>>
         /\ request[r].change # 0 /\ ~request[r].found
         /\ request' \in [Requests -> Handling]
         /\ \A s \in Requests \ {r} : request'[s] = request[s]
         /\ request'[r].change = request[r].change /\ request'[r].found
         /\ request'[r].targets = Subscribers(request[r].change)
<1>1. PICK old \in Handling : old = request[r]
  BY DEF OutboxTypes
<1>2. PICK them \in SUBSET Webhooks : them = Subscribers(old.change)
  BY DEF Subscribers
<1>3. PICK new : new = [old EXCEPT !.found = TRUE, !.targets = them]
  OBVIOUS
<1>4. /\ new \in Handling /\ new.change = old.change /\ new.found
      /\ new.targets = them
  BY <1>3 DEF Handling
<1>5. request' = [request EXCEPT ![r].found = TRUE, ![r].targets = them]
  BY <1>1, <1>2 DEF Find
<1>6. request' = [request EXCEPT ![r] = new]
  BY <1>1, <1>3, <1>5 DEF OutboxTypes
<1>7. QED
  BY <1>1, <1>2, <1>4, <1>6, OneRequest DEF Find

LEMMA AddJobIs ==
  ASSUME OutboxTypes, NEW r \in Requests, NEW w \in Webhooks, AddJob(r, w)
  PROVE  /\ UNCHANGED <<desk, hooks, active, failed, arrived, raced, faults>>
         /\ w \in request[r].targets
         /\ request' \in [Requests -> Handling]
         /\ \A s \in Requests \ {r} : request'[s] = request[s]
         /\ request'[r].change = request[r].change
         /\ request'[r].found = request[r].found
         /\ request'[r].targets = request[r].targets \ {w}
         /\ \E job \in Job : /\ job.webhook = w /\ job.change = request[r].change
                             /\ waiting' = Append(waiting, job)
                             /\ waiting' \in Seq(Job)
<1>1. PICK old \in Handling : old = request[r]
  BY DEF OutboxTypes
<1>2. PICK new : new = [old EXCEPT !.targets = @ \ {w}]
  OBVIOUS
<1>3. /\ new \in Handling /\ new.change = old.change /\ new.found = old.found
      /\ new.targets = old.targets \ {w}
  BY <1>2 DEF Handling
<1>4. request' = [request EXCEPT ![r] = new]
  BY <1>1, <1>2 DEF AddJob, OutboxTypes
<1>5. PICK job : job = [webhook |-> w, change |-> old.change, again |-> FALSE]
  OBVIOUS
<1>6. job \in Job /\ job.webhook = w /\ job.change = old.change
  BY <1>5 DEF Job, Handling
<1>7. waiting' = Append(waiting, job)
  BY <1>1, <1>5 DEF AddJob, Enqueue
<1>8. waiting' \in Seq(Job)
  BY <1>6, <1>7, Lengthened DEF OutboxTypes
<1>9. QED
  BY <1>1, <1>3, <1>4, <1>6, <1>7, <1>8, OneRequest DEF AddJob

\* Answer and Break
LEMMA RestIs ==
  ASSUME OutboxTypes, NEW r \in Requests, request' = [request EXCEPT ![r] = AtRest]
  PROVE  /\ request' \in [Requests -> Handling]
         /\ request'[r] = AtRest
         /\ \A s \in Requests \ {r} : request'[s] = request[s]
  BY AtRestIs, OneRequest

LEMMA TakeIs ==
  ASSUME OutboxTypes, Take
  PROVE  /\ UNCHANGED <<desk, request, hooks, failed, arrived, faults>>
         /\ waiting # <<>> /\ waiting' = Tail(waiting) /\ Head(waiting) \in Job
         /\ waiting' \in Seq(Job) /\ Head(waiting) = waiting[1]
         /\ Len(waiting) \in Nat /\ Len(waiting) > 0
         /\ Len(waiting') = Len(waiting) - 1
         /\ \A i \in 1..Len(waiting') : waiting'[i] = waiting[i + 1]
         /\ active' = active \cup {Head(waiting)}
         /\ active' \subseteq Job /\ raced' \in BOOLEAN
         /\ ~raced' => ~raced /\ active = {}
<1>1. waiting \in Seq(Job) /\ waiting # <<>> /\ waiting' = Tail(waiting)
  BY DEF Take, OutboxTypes
<1>2. raced' \in BOOLEAN /\ (~raced' => ~raced /\ active = {})
  BY DEF Take, OutboxTypes
<1>3. Head(waiting) \in Job
  BY <1>1, Tailed
<1>4. active' = active \cup {Head(waiting)} /\ active' \subseteq Job
  BY <1>3 DEF Take, OutboxTypes
<1>5. QED
  BY <1>1, <1>2, <1>3, <1>4, Tailed DEF Take

\* One more event has reached the subscriber, or none.
Came(job) ==
  \/ UNCHANGED arrived
  \/ arrived' = [arrived EXCEPT ![job.webhook] = Append(@, job.change)]

LEMMA DeliverIs ==
  ASSUME OutboxTypes, NEW job \in active, Deliver(job)
  PROVE  /\ UNCHANGED <<desk, request, hooks, waiting, raced>>
         /\ active' = active \ {job} /\ Came(job)
         /\ \/ /\ UNCHANGED <<failed, faults>>
               /\ arrived' = [arrived EXCEPT ![job.webhook] = Append(@, job.change)]
            \/ faults' = faults + 1 /\ failed' = failed \cup {job}
  BY DEF Deliver, Arrive, Came

LEMMA StallIs ==
  ASSUME OutboxTypes, NEW job \in active, Stall(job)
  PROVE  /\ UNCHANGED <<desk, request, hooks, raced>>
         /\ active' = active \ {job} /\ Came(job) /\ faults' = faults + 1
         /\ \/ failed' = failed \cup {job} /\ UNCHANGED waiting
            \/ /\ UNCHANGED failed
               /\ \E again \in Job : /\ again.webhook = job.webhook
                                     /\ again.change = job.change
                                     /\ waiting' = Append(waiting, again)
                                     /\ waiting' \in Seq(Job)
<1>1. job \in Job
  BY DEF OutboxTypes
<1>2. PICK again : again = [job EXCEPT !.again = TRUE]
  OBVIOUS
<1>3. /\ again \in Job /\ again.webhook = job.webhook /\ again.change = job.change
  BY <1>1, <1>2 DEF Job
<1>4. Append(waiting, again) \in Seq(Job)
  BY <1>3, Lengthened DEF OutboxTypes
<1>5. QED
  BY <1>2, <1>3, <1>4 DEF Stall, Arrive, Came

\* What an arrival does to a subscriber's list.
LEMMA CameIs ==
  ASSUME OutboxTypes, NEW job \in Job, Came(job)
  PROVE  /\ arrived' \in [Webhooks -> Seq(Nat)]
         /\ \A w \in Webhooks \ {job.webhook} : arrived'[w] = arrived[w]
         /\ \/ arrived'[job.webhook] = arrived[job.webhook]
            \/ arrived'[job.webhook] = Append(arrived[job.webhook], job.change)
<1>1. job.webhook \in Webhooks /\ job.change \in Nat
  BY DEF Job
<1>2. arrived[job.webhook] \in Seq(Nat)
  BY <1>1 DEF OutboxTypes
<1>3. Append(arrived[job.webhook], job.change) \in Seq(Nat)
  BY <1>1, <1>2, Lengthened
<1>4. QED
  BY <1>1, <1>3 DEF Came, OutboxTypes

LEMMA OutboxTypesStep ==
  ASSUME OutboxTypes, [OutboxNext]_outboxVars
  PROVE  OutboxTypes'
<1> USE DEF desk, hooks, queue
<1>1. ASSUME NEW r \in Requests, NEW c \in Change, Commit(r, c)
      PROVE  OutboxTypes'
  BY <1>1, CommitIs DEF OutboxTypes
<1>2. ASSUME NEW r \in Requests, Find(r)
      PROVE  OutboxTypes'
  BY <1>2, FindIs DEF OutboxTypes
<1>3. ASSUME NEW r \in Requests, NEW w \in Webhooks, AddJob(r, w)
      PROVE  OutboxTypes'
  BY <1>3, AddJobIs DEF OutboxTypes
<1>4. ASSUME NEW r \in Requests, Answer(r) \/ Break(r)
      PROVE  OutboxTypes'
  <2>1. /\ request' = [request EXCEPT ![r] = AtRest]
        /\ UNCHANGED <<changes, since, queue, arrived>>
        /\ faults' = faults \/ faults' = faults + 1
    BY <1>4 DEF Answer, Break
  <2>2. request' \in [Requests -> Handling]
    BY <2>1, RestIs
  <2> QED
    BY <2>1, <2>2, <1>4 DEF OutboxTypes, Answer, Break
<1>5. ASSUME NEW w \in Webhooks, Subscribe(w) \/ Remove(w)
      PROVE  OutboxTypes'
  <2>1. Len(changes) \in Nat
    BY LenProperties DEF OutboxTypes
  <2> QED
    BY <1>5, <2>1 DEF OutboxTypes, Subscribe, Remove
<1>6. CASE Take
  BY <1>6, TakeIs DEF OutboxTypes
<1>7. ASSUME NEW job \in active, Deliver(job)
      PROVE  OutboxTypes'
  <2>1. job \in Job
    BY DEF OutboxTypes
  <2> QED
    <3>1. UNCHANGED <<changes, request, since, waiting, raced>>
      BY <1>7, DeliverIs
    <3>2. active' \subseteq Job /\ failed' \subseteq Job /\ faults' \in Nat
      BY <1>7, <2>1, DeliverIs DEF OutboxTypes
    <3>3. arrived' \in [Webhooks -> Seq(Nat)]
      BY <1>7, <2>1, DeliverIs, CameIs
    <3> QED
      BY <3>1, <3>2, <3>3 DEF OutboxTypes
<1>8. ASSUME NEW job \in active, Stall(job)
      PROVE  OutboxTypes'
  <2>1. job \in Job
    BY DEF OutboxTypes
  <2> QED
    <3>1. UNCHANGED <<changes, request, since, raced>>
      BY <1>8, StallIs
    <3>2. active' \subseteq Job /\ failed' \subseteq Job /\ faults' \in Nat
      BY <1>8, <2>1, StallIs DEF OutboxTypes
    <3>3. arrived' \in [Webhooks -> Seq(Nat)] /\ waiting' \in Seq(Job)
      BY <1>8, <2>1, StallIs, CameIs DEF OutboxTypes
    <3> QED
      BY <3>1, <3>2, <3>3 DEF OutboxTypes
<1>9. CASE UNCHANGED outboxVars
  BY <1>9 DEF OutboxTypes, outboxVars
<1>10. QED
  BY <1>1, <1>2, <1>3, <1>4, <1>5, <1>6, <1>7, <1>8, <1>9
     DEF OutboxNext, Handle, Work

-----------------------------------------------------------------------------
(* Outbox: the queue and the subscribers' lists *)

LEMMA RangeIs ==
  ASSUME NEW S, NEW ms \in Seq(S)
  PROVE  /\ \A i \in 1..Len(ms) : ms[i] \in Range(ms)
         /\ \A x \in Range(ms) : \E i \in 1..Len(ms) : x = ms[i]
<1>1. DOMAIN ms = 1..Len(ms)
  BY LenProperties
<1>2. QED
  BY <1>1 DEF Range

LEMMA RangeAdded ==
  ASSUME NEW S, NEW ms \in Seq(S), NEW m \in S
  PROVE  Range(Append(ms, m)) = Range(ms) \cup {m}
<1>1. Append(ms, m) \in Seq(S) /\ Len(ms) \in Nat /\ Len(Append(ms, m)) = Len(ms) + 1
      /\ \A i \in 1..Len(ms) : Append(ms, m)[i] = ms[i]
      /\ Append(ms, m)[Len(ms) + 1] = m
  BY Lengthened
<1>2. ASSUME NEW x \in Range(Append(ms, m))
      PROVE  x \in Range(ms) \cup {m}
  <2>1. PICK i \in 1..(Len(ms) + 1) : x = Append(ms, m)[i]
    BY ZenonT(60), <1>1, <1>2, RangeIs
  <2>2. CASE i = Len(ms) + 1
    BY <1>1, <2>1, <2>2
  <2>3. CASE i \in 1..Len(ms)
    BY <1>1, <2>1, <2>3, RangeIs
  <2>4. QED
    BY <1>1, <2>2, <2>3
<1>3. ASSUME NEW x \in Range(ms)
      PROVE  x \in Range(Append(ms, m))
  <2>1. PICK i \in 1..Len(ms) : x = ms[i]
    BY <1>3, RangeIs
  <2>2. i \in 1..Len(Append(ms, m)) /\ Append(ms, m)[i] = x
    BY <1>1, <2>1
  <2>3. QED
    BY <1>1, <2>2, RangeIs
<1>4. m \in Range(Append(ms, m))
  <2>1. Len(ms) + 1 \in 1..Len(Append(ms, m))
    BY <1>1
  <2>2. Append(ms, m)[Len(ms) + 1] \in Range(Append(ms, m))
    BY <1>1, <2>1, RangeIs
  <2>3. QED
    BY <1>1, <2>2
<1>5. QED
  BY <1>2, <1>3, <1>4

LEMMA RangeTaken ==
  ASSUME NEW S, NEW ms \in Seq(S), ms # <<>>
  PROVE  Range(ms) = Range(Tail(ms)) \cup {Head(ms)}
<1>1. /\ Tail(ms) \in Seq(S) /\ Head(ms) = ms[1] /\ Len(ms) \in Nat /\ Len(ms) > 0
      /\ Len(Tail(ms)) = Len(ms) - 1
      /\ \A i \in 1..Len(Tail(ms)) : Tail(ms)[i] = ms[i + 1]
  BY Tailed
<1>2. ASSUME NEW x \in Range(ms)
      PROVE  x \in Range(Tail(ms)) \cup {Head(ms)}
  <2>1. PICK i \in 1..Len(ms) : x = ms[i]
    BY <1>2, RangeIs
  <2>2. CASE i = 1
    BY <1>1, <2>1, <2>2
  <2>3. CASE i # 1
    <3>1. i - 1 \in 1..Len(Tail(ms)) /\ Tail(ms)[i - 1] = x
      BY <1>1, <2>1, <2>3
    <3>2. QED
      BY <1>1, <3>1, RangeIs
  <2>4. QED
    BY <2>2, <2>3
<1>3. ASSUME NEW x \in Range(Tail(ms))
      PROVE  x \in Range(ms)
  <2>1. PICK i \in 1..Len(Tail(ms)) : x = Tail(ms)[i]
    BY <1>1, <1>3, RangeIs
  <2>2. i + 1 \in 1..Len(ms) /\ ms[i + 1] = x
    BY <1>1, <2>1
  <2>3. QED
    BY <2>2, RangeIs
<1>4. Head(ms) \in Range(ms)
  <2>1. 1 \in 1..Len(ms)
    BY <1>1
  <2>2. QED
    BY <1>1, <2>1, RangeIs
<1>5. QED
  BY <1>2, <1>3, <1>4

LEMMA JobsAre == Jobs = active \cup Range(waiting)
  BY DEF Jobs, Range

LEMMA JobsTyped == OutboxTypes => Jobs \subseteq Job
<1> SUFFICES ASSUME OutboxTypes PROVE Jobs \subseteq Job
  OBVIOUS
<1>1. \A i \in 1..Len(waiting) : waiting[i] \in Job
  BY ElementOfSeq DEF OutboxTypes
<1>2. Range(waiting) \subseteq Job
  BY <1>1, RangeIs DEF OutboxTypes
<1>3. QED
  BY <1>2, JobsAre DEF OutboxTypes

LEMMA JobsAdded ==
  ASSUME OutboxTypes, NEW job \in Job, waiting' = Append(waiting, job),
         active' = active
  PROVE  Jobs' = Jobs \cup {job}
<1>1. Range(waiting') = Range(waiting) \cup {job}
  BY RangeAdded DEF OutboxTypes
<1>2. Jobs' = active' \cup Range(waiting')
  BY DEF Jobs, Range
<1>3. QED
  BY <1>1, <1>2, JobsAre

LEMMA JobsTaken ==
  ASSUME OutboxTypes, Take
  PROVE  Jobs' = Jobs
<1>1. Range(waiting) = Range(waiting') \cup {Head(waiting)}
  BY TakeIs, RangeTaken DEF OutboxTypes
<1>2. Jobs' = active' \cup Range(waiting')
  BY DEF Jobs, Range
<1>3. QED
  BY <1>1, <1>2, JobsAre, TakeIs

LEMMA JobsDelivered ==
  ASSUME OutboxTypes, NEW job \in active, waiting' = waiting, active' = active \ {job}
  PROVE  Jobs' \subseteq Jobs /\ Jobs \subseteq Jobs' \cup {job}
  BY DEF Jobs

LEMMA JobsStalled ==
  ASSUME OutboxTypes, NEW job \in active, active' = active \ {job},
         NEW again \in Job, waiting' = Append(waiting, again)
  PROVE  /\ Jobs' \subseteq Jobs \cup {again} /\ again \in Jobs'
         /\ Jobs \cup {again} \subseteq Jobs' \cup {job}
<1>1. Range(waiting') = Range(waiting) \cup {again}
  BY RangeAdded DEF OutboxTypes
<1>2. Jobs' = active' \cup Range(waiting')
  BY DEF Jobs, Range
<1>3. QED
  BY <1>1, <1>2, JobsAre

Counts(s, n) == {i \in DOMAIN s : s[i] = n}

LEMMA CountsAre ==
  ASSUME NEW s \in Seq(Nat), NEW n
  PROVE  IsFiniteSet(Counts(s, n)) /\ Cardinality(Counts(s, n)) \in Nat
<1>1. IsFiniteSet(1..Len(s))
  BY LenProperties, FS_Interval
<1>2. Counts(s, n) \subseteq 1..Len(s)
  BY LenProperties DEF Counts
<1>3. QED
  BY <1>1, <1>2, FS_Subset, FS_CardinalityType

LEMMA CountsAppended ==
  ASSUME NEW s \in Seq(Nat), NEW n, NEW m \in Nat
  PROVE  Cardinality(Counts(Append(s, m), n)) = Cardinality(Counts(s, n)) + (IF m = n THEN 1 ELSE 0)
<1>1. DOMAIN s = 1..Len(s) /\ DOMAIN Append(s, m) = 1..(Len(s) + 1) /\ Len(s) \in Nat
  BY Lengthened, LenProperties
<1>2. CASE m = n
  <2>1. Counts(Append(s, m), n) = Counts(s, n) \cup {Len(s) + 1}
    BY <1>1, <1>2, Lengthened DEF Counts
  <2>2. Len(s) + 1 \notin Counts(s, n)
    BY <1>1 DEF Counts
  <2>3. QED
    BY <1>2, <2>1, <2>2, CountsAre, FS_AddElement
<1>3. CASE m # n
  <2>1. Counts(Append(s, m), n) = Counts(s, n)
    BY <1>1, <1>3, Lengthened DEF Counts
  <2>2. QED
    BY <1>3, <2>1, CountsAre
<1>4. QED
  BY <1>2, <1>3

\* How often a subscriber has heard of a change, after an arrival.
LEMMA TimesAre ==
  ASSUME OutboxTypes, NEW w \in Webhooks, NEW n
  PROVE  /\ Times(w, n) \in Nat
         /\ arrived'[w] = arrived[w] => Times(w, n)' = Times(w, n)
         /\ \A m \in Nat : arrived'[w] = Append(arrived[w], m) =>
              Times(w, n)' = Times(w, n) + (IF m = n THEN 1 ELSE 0)
<1>1. arrived[w] \in Seq(Nat) /\ Times(w, n) = Cardinality(Counts(arrived[w], n))
  BY DEF OutboxTypes, Times, Counts
<1>2. Times(w, n)' = Cardinality(Counts(arrived'[w], n))
  BY DEF Times, Counts
<1>3. Times(w, n) \in Nat
  BY <1>1, CountsAre
<1>4. ASSUME NEW m \in Nat, arrived'[w] = Append(arrived[w], m)
      PROVE  Times(w, n)' = Times(w, n) + (IF m = n THEN 1 ELSE 0)
  BY <1>1, <1>2, <1>4, CountsAppended
<1>5. QED
  BY <1>1, <1>2, <1>3, <1>4

-----------------------------------------------------------------------------
(* Outbox: the invariant *)

Same(j, k) == j.webhook = k.webhook /\ j.change = k.change

\* Whether w hears of change n is up to a request, to the queue, or settled.
Owed(w, n) == \E r \in Requests :
  request[r].change = n /\ (~request[r].found \/ w \in request[r].targets)
Known(w, n) ==
  \/ n \in Range(arrived[w])
  \/ \E job \in Jobs \cup failed : job.webhook = w /\ job.change = n

\* What jobs, lists and requests speak of has been committed.
Placed ==
  /\ \A job \in Jobs \cup failed : job.change \in 1..Len(changes)
  /\ \A w \in Webhooks : Range(arrived[w]) \subseteq 1..Len(changes)
  /\ \A r \in Requests : /\ request[r].change \in 0..Len(changes)
                         /\ Resting(request[r])
                         /\ request[r].targets # {} => request[r].found
  /\ answered \subseteq 1..Len(changes)

\* A change has one request, and a webhook at most one job for it.
Once ==
  /\ \A r, s \in Requests :
       request[r].change = request[s].change /\ request[r].change # 0 => r = s
  /\ \A job \in Jobs : ~Owed(job.webhook, job.change)
  /\ \A i, j \in 1..Len(waiting) : Same(waiting[i], waiting[j]) => i = j
  /\ \A job \in active, i \in 1..Len(waiting) : ~Same(job, waiting[i])
  /\ \A j, k \in active : Same(j, k) => j = k

\* Every delivery that is given up has cost a fault.
Afforded == IsFiniteSet(failed) /\ Cardinality(failed) <= faults

\* Only a fault makes a webhook hear of a change twice.
Counted == \A w \in Webhooks, n \in 1..Len(changes) :
  Times(w, n) <= faults + (IF Owed(w, n) \/ OnItsWay(w, n) THEN 0 ELSE 1)

LEMMA NothingMoved ==
  ASSUME UNCHANGED outboxVars
  PROVE  /\ UNCHANGED <<status, changes, answered, request, since, removed,
                        waiting, active, failed, arrived, raced, faults>>
         /\ Jobs' = Jobs
  BY DEF outboxVars, desk, hooks, queue, Jobs

\* The end of a request.
LEMMA RequestEnds ==
  ASSUME OutboxTypes, NEW r \in Requests, Answer(r) \/ Break(r)
  PROVE  /\ UNCHANGED <<status, changes, since, removed, waiting, active,
                        failed, arrived, raced>>
         /\ Jobs' = Jobs
         /\ request' \in [Requests -> Handling] /\ request'[r] = AtRest
         /\ \A s \in Requests \ {r} : request'[s] = request[s]
         /\ \/ /\ answered' = answered /\ faults' = faults + 1
            \/ /\ answered' = answered \cup {request[r].change} /\ faults' = faults
               /\ request[r].found /\ request[r].targets = {}
<1>1. request' = [request EXCEPT ![r] = AtRest]
  BY DEF Answer, Break
<1>2. UNCHANGED <<status, changes, since, removed, waiting, active, failed, arrived, raced>>
  BY DEF Answer, Break, desk, hooks, queue
<1>3. Jobs' = Jobs
  BY <1>2 DEF Jobs
<1>4. QED
  BY <1>1, <1>2, <1>3, RestIs DEF Answer, Break, desk

\* What has reached a subscriber, after an arrival.
LEMMA CameTo ==
  ASSUME OutboxTypes, NEW job \in Job, Came(job), NEW w \in Webhooks
  PROVE  /\ Range(arrived[w]) \subseteq Range(arrived'[w])
         /\ \A n \in Range(arrived'[w]) :
              n \in Range(arrived[w]) \/ (w = job.webhook /\ n = job.change)
         /\ arrived' = [arrived EXCEPT ![job.webhook] = Append(@, job.change)] =>
              job.change \in Range(arrived'[job.webhook])
<1>1. job.webhook \in Webhooks /\ job.change \in Nat
  BY DEF Job
<1>2. arrived[job.webhook] \in Seq(Nat)
  BY <1>1 DEF OutboxTypes
<1>3. Range(Append(arrived[job.webhook], job.change)) = Range(arrived[job.webhook]) \cup {job.change}
  BY <1>1, <1>2, RangeAdded
<1>4. CASE UNCHANGED arrived
  <2>1. arrived' = [arrived EXCEPT ![job.webhook] = Append(@, job.change)] =>
          arrived'[job.webhook] = Append(arrived[job.webhook], job.change)
    BY <1>1 DEF OutboxTypes
  <2>2. QED
    BY <1>3, <1>4, <2>1
<1>5. CASE arrived' = [arrived EXCEPT ![job.webhook] = Append(@, job.change)]
  <2>1. /\ arrived'[job.webhook] = Append(arrived[job.webhook], job.change)
        /\ w # job.webhook => arrived'[w] = arrived[w]
    BY <1>1, <1>5 DEF OutboxTypes
  <2>2. QED
    BY <1>3, <2>1
<1>6. QED
  BY <1>4, <1>5 DEF Came

\* What a worker does with a job keeps it known.
LEMMA WorkIs ==
  ASSUME OutboxTypes, NEW job \in active, Deliver(job) \/ Stall(job)
  PROVE  /\ UNCHANGED <<status, changes, answered, request, since, removed, raced>>
         /\ job \in Job /\ Came(job)
         /\ \A k \in Jobs' \cup failed' : \E j \in Jobs \cup failed : Same(j, k)
         /\ \A k \in Jobs' : \E j \in Jobs : Same(j, k)
         /\ \A w \in Webhooks, n \in Nat : Known(w, n)' <=> Known(w, n)
<1>1. UNCHANGED <<status, changes, answered, request, since, removed, raced>>
  BY DEF Deliver, Stall, desk, hooks
<1>2. job \in Job /\ job \in Jobs /\ job.webhook \in Webhooks /\ job.change \in Nat
  BY DEF OutboxTypes, Jobs, Job
<1>3. Came(job)
  BY DeliverIs, StallIs
<1>4. CASE Deliver(job)
  <2>1. Jobs' \subseteq Jobs /\ Jobs \subseteq Jobs' \cup {job}
    BY <1>4, DeliverIs, JobsDelivered
  <2>2. /\ failed \subseteq failed' /\ failed' \subseteq failed \cup {job}
        /\ \/ job \in failed'
           \/ arrived' = [arrived EXCEPT ![job.webhook] = Append(@, job.change)]
    BY <1>4, DeliverIs
  <2>3. ASSUME NEW w \in Webhooks, NEW n \in Nat
        PROVE  Known(w, n)' <=> Known(w, n)
    <3>1. /\ Range(arrived[w]) \subseteq Range(arrived'[w])
          /\ n \in Range(arrived'[w]) =>
               n \in Range(arrived[w]) \/ (w = job.webhook /\ n = job.change)
          /\ job \in failed' \/ job.change \in Range(arrived'[job.webhook])
      BY <1>2, <1>3, <2>2, CameTo
    <3>2. Known(w, n) => Known(w, n)'
      BY <2>1, <2>2, <3>1 DEF Known
    <3>3. Known(w, n)' => Known(w, n)
      BY <1>2, <2>1, <2>2, <3>1 DEF Known
    <3>4. QED
      BY <3>2, <3>3
  <2>4. QED
    BY <1>1, <1>2, <1>3, <2>1, <2>2, <2>3 DEF Same
<1>5. CASE Stall(job)
  <2>1. CASE failed' = failed \cup {job} /\ UNCHANGED waiting
    <3>1. Jobs' \subseteq Jobs /\ Jobs \subseteq Jobs' \cup {job}
      BY <1>5, <2>1, StallIs, JobsDelivered
    <3>2. \A w \in Webhooks, n \in Nat : Known(w, n)' <=> Known(w, n)
      BY <1>2, <1>3, <2>1, <3>1, CameTo DEF Known
    <3>3. QED
      BY <1>1, <1>2, <1>3, <2>1, <3>1, <3>2 DEF Same
  <2>2. CASE UNCHANGED failed /\ waiting' # waiting
    <3>1. PICK again \in Job : Same(again, job) /\ waiting' = Append(waiting, again)
      BY <1>5, <2>2, StallIs DEF Same
    <3>2. Jobs' \subseteq Jobs \cup {again} /\ Jobs \cup {again} \subseteq Jobs' \cup {job}
      BY <1>5, <3>1, StallIs, JobsStalled
    <3>3. again \in Jobs'
      BY <1>5, <3>1, StallIs, JobsStalled
    <3>4. ASSUME NEW w \in Webhooks, NEW n \in Nat
          PROVE  Known(w, n)' <=> Known(w, n)
      <4>1. /\ Range(arrived[w]) \subseteq Range(arrived'[w])
            /\ n \in Range(arrived'[w]) =>
                 n \in Range(arrived[w]) \/ (w = job.webhook /\ n = job.change)
        BY <1>2, <1>3, CameTo
      <4>2. Known(w, n) => Known(w, n)'
        BY <2>2, <3>1, <3>2, <3>3, <4>1 DEF Known, Same
      <4>3. Known(w, n)' => Known(w, n)
        BY <1>2, <2>2, <3>1, <3>2, <4>1 DEF Known, Same
      <4>4. QED
        BY <4>2, <4>3
    <3>5. QED
      BY <1>1, <1>2, <1>3, <2>2, <3>1, <3>2, <3>4 DEF Same
  <2>3. QED
    BY <1>5, <2>1, <2>2, StallIs
<1>6. QED
  BY <1>4, <1>5

LEMMA PlacedStep ==
  ASSUME OutboxTypes, Placed, [OutboxNext]_outboxVars
  PROVE  Placed'
<1>1. ASSUME NEW r \in Requests, NEW c \in Change, Commit(r, c)
      PROVE  Placed'
  <2>1. /\ UNCHANGED <<answered, failed, arrived>> /\ Jobs' = Jobs
        /\ Len(changes) \in Nat /\ Len(changes') = Len(changes) + 1
        /\ \A s \in Requests \ {r} : request'[s] = request[s]
        /\ request'[r].change = Len(changes) + 1 /\ request'[r].targets = {}
    BY <1>1, CommitIs DEF queue, Jobs
  <2> QED
    BY <2>1 DEF Placed, Resting
<1>2. ASSUME NEW r \in Requests, Find(r)
      PROVE  Placed'
  <2>1. /\ UNCHANGED <<answered, failed, arrived, changes>> /\ Jobs' = Jobs
        /\ \A s \in Requests \ {r} : request'[s] = request[s]
        /\ request'[r].change = request[r].change /\ request[r].change # 0
        /\ request'[r].found
    BY <1>2, FindIs DEF queue, desk, Jobs
  <2> QED
    BY <2>1 DEF Placed, Resting
<1>3. ASSUME NEW r \in Requests, NEW w \in Webhooks, AddJob(r, w)
      PROVE  Placed'
  <2>1. PICK job \in Job : /\ job.webhook = w /\ job.change = request[r].change
                           /\ waiting' = Append(waiting, job)
    BY <1>3, AddJobIs
  <2>2. /\ UNCHANGED <<answered, failed, arrived, changes, active>>
        /\ \A s \in Requests \ {r} : request'[s] = request[s]
        /\ request'[r].change = request[r].change
        /\ request[r].targets # {} /\ request'[r].found = request[r].found
    BY <1>3, AddJobIs DEF desk
  <2>3. Jobs' = Jobs \cup {job}
    BY <2>1, <2>2, JobsAdded
  <2>4. request[r].change # 0
    BY <2>2, AtRestIs DEF Placed, Resting
  <2>5. request[r].change \in 1..Len(changes)
    BY <2>4, LenProperties DEF Placed, OutboxTypes
  <2> QED
    BY <2>1, <2>2, <2>3, <2>4, <2>5 DEF Placed, Resting
<1>4. ASSUME NEW r \in Requests, Answer(r) \/ Break(r)
      PROVE  Placed'
  <2>1. /\ UNCHANGED <<failed, arrived, changes>> /\ Jobs' = Jobs
        /\ request'[r] = AtRest
        /\ \A s \in Requests \ {r} : request'[s] = request[s]
        /\ \/ answered' = answered
           \/ /\ answered' = answered \cup {request[r].change}
              /\ request[r].found
    BY <1>4, RequestEnds
  <2>2. request[r].found => request[r].change # 0
    BY DEF Placed, Resting, AtRest
  <2>3. Len(changes) \in Nat
    BY LenProperties DEF OutboxTypes
  <2> QED
    BY <2>1, <2>2, <2>3, AtRestIs DEF Placed, Resting
<1>5. ASSUME NEW w \in Webhooks, Subscribe(w) \/ Remove(w)
      PROVE  Placed'
  BY <1>5 DEF Placed, Subscribe, Remove, queue, desk, Jobs
<1>6. CASE Take
  <2>1. UNCHANGED <<answered, failed, arrived, changes, request>> /\ Jobs' = Jobs
    BY <1>6, TakeIs, JobsTaken DEF desk
  <2> QED
    BY <2>1 DEF Placed
<1>7. ASSUME NEW job \in active, Deliver(job) \/ Stall(job)
      PROVE  Placed'
  <2>1. /\ UNCHANGED <<answered, changes, request>>
        /\ \A k \in Jobs' \cup failed' : \E j \in Jobs \cup failed : Same(j, k)
        /\ job \in Job /\ Came(job) /\ job \in Jobs
    BY <1>7, WorkIs DEF Jobs
  <2>2. \A w \in Webhooks : Range(arrived'[w]) \subseteq 1..Len(changes)
    BY <2>1, CameTo DEF Placed
  <2> QED
    BY <2>1, <2>2 DEF Placed, Same
<1>8. CASE UNCHANGED outboxVars
  BY <1>8, NothingMoved DEF Placed
<1>9. QED
  BY <1>1, <1>2, <1>3, <1>4, <1>5, <1>6, <1>7, <1>8
     DEF OutboxNext, Handle, Work

\* Requests owe nothing new of what has been committed, and nothing twice.
LEMMA OwedStep ==
  ASSUME OutboxTypes, Placed, [OutboxNext]_outboxVars,
         NEW w \in Webhooks, NEW n \in 1..Len(changes)
  PROVE  Owed(w, n)' => Owed(w, n)
<1>1. ASSUME NEW r \in Requests, NEW c \in Change, Commit(r, c)
      PROVE  Owed(w, n)' => Owed(w, n)
  BY <1>1, CommitIs DEF Owed
<1>2. ASSUME NEW r \in Requests, Find(r)
      PROVE  Owed(w, n)' => Owed(w, n)
  BY <1>2, FindIs DEF Owed
<1>3. ASSUME NEW r \in Requests, NEW v \in Webhooks, AddJob(r, v)
      PROVE  Owed(w, n)' => Owed(w, n)
  BY <1>3, AddJobIs DEF Owed
<1>4. ASSUME NEW r \in Requests, Answer(r) \/ Break(r)
      PROVE  Owed(w, n)' => Owed(w, n)
  BY <1>4, RequestEnds, AtRestIs DEF Owed
<1>5. CASE UNCHANGED request
  BY <1>5 DEF Owed
<1>6. ASSUME NEW v \in Webhooks, Subscribe(v) \/ Remove(v)
      PROVE  UNCHANGED request
  BY <1>6 DEF Subscribe, Remove
<1>7. CASE Take
  BY <1>5, <1>7 DEF Take
<1>8. ASSUME NEW job \in active, Deliver(job) \/ Stall(job)
      PROVE  UNCHANGED request
  BY <1>8 DEF Deliver, Stall
<1>9. CASE UNCHANGED outboxVars
  BY <1>5, <1>9, NothingMoved
<1>10. QED
  BY <1>1, <1>2, <1>3, <1>4, <1>5, <1>6, <1>7, <1>8, <1>9
     DEF OutboxNext, Handle, Work

\* The part of Once that is about the queue alone.
Sole ==
  /\ \A i, j \in 1..Len(waiting) : Same(waiting[i], waiting[j]) => i = j
  /\ \A job \in active, i \in 1..Len(waiting) : ~Same(job, waiting[i])
  /\ \A j, k \in active : Same(j, k) => j = k

LEMMA SoleAdded ==
  ASSUME OutboxTypes, Sole, NEW job \in Job, waiting' = Append(waiting, job),
         active' \subseteq active,
         \A i \in 1..Len(waiting) : ~Same(job, waiting[i]),
         \A k \in active' : ~Same(k, job)
  PROVE  Sole'
<1>1. /\ Len(waiting) \in Nat /\ Len(waiting') = Len(waiting) + 1
      /\ \A i \in 1..Len(waiting) : waiting'[i] = waiting[i]
      /\ waiting'[Len(waiting) + 1] = job
  BY Lengthened DEF OutboxTypes
<1>2. \A i \in 1..Len(waiting') : i \in 1..Len(waiting) \/ i = Len(waiting) + 1
  BY <1>1
<1>3. QED
  BY <1>1, <1>2 DEF Sole, Same

LEMMA SoleTaken ==
  ASSUME OutboxTypes, Sole, Take
  PROVE  Sole'
<1>1. /\ Head(waiting) = waiting[1] /\ active' = active \cup {Head(waiting)}
      /\ Len(waiting) \in Nat /\ Len(waiting) > 0
      /\ Len(waiting') = Len(waiting) - 1
      /\ \A i \in 1..Len(waiting') : waiting'[i] = waiting[i + 1]
  BY TakeIs
<1>2. 1 \in 1..Len(waiting)
      /\ \A i \in 1..Len(waiting') : i + 1 \in 1..Len(waiting) /\ i + 1 # 1
  BY <1>1
<1>3. \A i, j \in 1..Len(waiting') : Same(waiting'[i], waiting'[j]) => i = j
  BY <1>1, <1>2 DEF Sole
<1>4. \A job \in active', i \in 1..Len(waiting') : ~Same(job, waiting'[i])
  BY <1>1, <1>2 DEF Sole
<1>5. \A j, k \in active' : Same(j, k) => j = k
  BY <1>1, <1>2 DEF Sole, Same
<1>6. QED
  BY <1>3, <1>4, <1>5 DEF Sole

LEMMA OnceIs ==
  Once <=> /\ \A r, s \in Requests :
                request[r].change = request[s].change /\ request[r].change # 0 => r = s
           /\ \A job \in Jobs : ~Owed(job.webhook, job.change)
           /\ Sole
  BY DEF Once, Sole

LEMMA JobIsKnown ==
  ASSUME OutboxTypes
  PROVE  /\ \A i \in 1..Len(waiting) : waiting[i] \in Jobs
         /\ \A job \in active : job \in Jobs
         /\ \A job \in Jobs : job \in Job /\ job.webhook \in Webhooks
  BY JobsAre, JobsTyped, RangeIs DEF OutboxTypes, Job

LEMMA OnceStep ==
  ASSUME OutboxTypes, Placed, Once, [OutboxNext]_outboxVars
  PROVE  Once'
<1>0. /\ \A r, s \in Requests :
           request[r].change = request[s].change /\ request[r].change # 0 => r = s
      /\ \A job \in Jobs : ~Owed(job.webhook, job.change)
      /\ Sole /\ Len(changes) \in Nat
  BY OnceIs, LenProperties DEF OutboxTypes
<1>a. \A job \in Jobs : ~Owed(job.webhook, job.change)'
  <2>1. ASSUME NEW job \in Jobs
        PROVE  job.webhook \in Webhooks /\ job.change \in 1..Len(changes)
    BY JobIsKnown DEF Placed
  <2>2. QED
    BY <1>0, <2>1, OwedStep
<1>b. ASSUME UNCHANGED <<waiting, active>>,
             \A r, s \in Requests : request'[r].change = request'[s].change
               /\ request'[r].change # 0 => r = s
      PROVE  Once'
  <2>1. Jobs' = Jobs /\ Sole'
    BY <1>0, <1>b DEF Jobs, Sole
  <2>2. QED
    BY <1>a, <1>b, <2>1 DEF Once, Sole
<1>1. ASSUME NEW r \in Requests, NEW c \in Change, Commit(r, c)
      PROVE  Once'
  <2>1. /\ UNCHANGED <<waiting, active>>
        /\ \A s \in Requests \ {r} : request'[s] = request[s]
        /\ request'[r].change = Len(changes) + 1
    BY <1>1, CommitIs DEF queue
  <2>2. \A s \in Requests : request[s].change # Len(changes) + 1
    BY <1>0 DEF Placed
  <2> QED
    BY <1>0, <1>b, <2>1, <2>2
<1>2. ASSUME NEW r \in Requests, Find(r)
      PROVE  Once'
  <2>1. /\ UNCHANGED <<waiting, active>>
        /\ \A s \in Requests : request'[s].change = request[s].change
    BY <1>2, FindIs DEF queue
  <2> QED
    BY <1>0, <1>b, <2>1
<1>3. ASSUME NEW r \in Requests, NEW w \in Webhooks, AddJob(r, w)
      PROVE  Once'
  <2>1. PICK job \in Job : /\ job.webhook = w /\ job.change = request[r].change
                           /\ waiting' = Append(waiting, job)
    BY <1>3, AddJobIs
  <2>2. /\ w \in request[r].targets /\ active' = active
        /\ \A s \in Requests \ {r} : request'[s] = request[s]
        /\ request'[r].change = request[r].change
        /\ request'[r].found = request[r].found
        /\ request'[r].targets = request[r].targets \ {w}
    BY <1>3, AddJobIs
  <2>3. request[r].change # 0 /\ request[r].found
    BY <2>2, AtRestIs DEF Placed, Resting
  <2>4. Owed(w, request[r].change)
    BY <2>2 DEF Owed
  <2>5. \A k \in Jobs : ~Same(k, job)
    BY <1>0, <2>1, <2>4 DEF Same
  <2>6. Sole'
    BY <1>0, <2>1, <2>2, <2>5, JobIsKnown, SoleAdded DEF Same
  <2>7. Jobs' = Jobs \cup {job}
    BY <2>1, <2>2, JobsAdded
  <2>8. ~Owed(job.webhook, job.change)'
    BY <1>0, <2>1, <2>2, <2>3 DEF Owed
  <2>9. \A s, t \in Requests : request'[s].change = request'[t].change
          /\ request'[s].change # 0 => s = t
    BY <1>0, <2>2
  <2> QED
    BY <1>a, <2>6, <2>7, <2>8, <2>9 DEF Once, Sole
<1>4. ASSUME NEW r \in Requests, Answer(r) \/ Break(r)
      PROVE  Once'
  <2>1. /\ UNCHANGED <<waiting, active>>
        /\ \A s \in Requests \ {r} : request'[s] = request[s]
        /\ request'[r].change = 0
    BY <1>4, RequestEnds, AtRestIs
  <2> QED
    BY <1>0, <1>b, <2>1
<1>5. ASSUME NEW w \in Webhooks, Subscribe(w) \/ Remove(w)
      PROVE  Once'
  <2>1. UNCHANGED <<waiting, active, request>>
    BY <1>5 DEF Subscribe, Remove, queue
  <2> QED
    BY <1>0, <1>b, <2>1
<1>6. CASE Take
  <2>1. Jobs' = Jobs /\ request' = request
    BY <1>6, JobsTaken DEF Take
  <2>2. Sole'
    BY <1>0, <1>6, SoleTaken
  <2> QED
    BY <1>0, <1>a, <2>1, <2>2 DEF Once, Sole
<1>7. ASSUME NEW job \in active, Deliver(job) \/ Stall(job)
      PROVE  Once'
  <2>1. /\ request' = request /\ job \in Job /\ job \in Jobs
        /\ \A k \in Jobs' : \E j \in Jobs : Same(j, k)
    BY <1>7, WorkIs DEF Jobs
  <2>2. \A k \in Jobs' : ~Owed(k.webhook, k.change)'
    BY <1>a, <2>1 DEF Same
  <2>3. active' = active \ {job}
    BY <1>7, DeliverIs, StallIs
  <2>4. CASE waiting' = waiting
    <3>1. Sole'
      BY <1>0, <2>3, <2>4 DEF Sole
    <3>2. QED
      BY <1>0, <2>1, <2>2, <3>1 DEF Once, Sole
  <2>5. CASE \E again \in Job : Same(again, job) /\ waiting' = Append(waiting, again)
    <3>1. PICK again \in Job : Same(again, job) /\ waiting' = Append(waiting, again)
      BY <2>5
    <3>2. \A i \in 1..Len(waiting) : ~Same(again, waiting[i])
      BY <1>0, <3>1 DEF Sole, Same
    <3>3. \A k \in active' : ~Same(k, again)
      BY <1>0, <2>3, <3>1 DEF Sole, Same
    <3>4. Sole'
      BY <1>0, <2>3, <3>1, <3>2, <3>3, SoleAdded
    <3>5. QED
      BY <1>0, <2>1, <2>2, <3>4 DEF Once, Sole
  <2> QED
    BY <1>7, <2>4, <2>5, DeliverIs, StallIs DEF Same
<1>8. CASE UNCHANGED outboxVars
  BY <1>0, <1>8, <1>b, NothingMoved
<1>9. QED
  BY <1>1, <1>2, <1>3, <1>4, <1>5, <1>6, <1>7, <1>8
     DEF OutboxNext, Handle, Work

LEMMA AffordedStep ==
  ASSUME OutboxTypes, Afforded, [OutboxNext]_outboxVars
  PROVE  Afforded'
<1>0. faults \in Nat
  BY DEF OutboxTypes
<1>a. ASSUME UNCHANGED failed, faults' \in {faults, faults + 1}
      PROVE  Afforded'
  BY <1>0, <1>a, FS_CardinalityType DEF Afforded
<1>b. ASSUME NEW job, failed' = failed \cup {job}, faults' = faults + 1
      PROVE  Afforded'
  <2>1. /\ IsFiniteSet(failed') /\ Cardinality(failed) \in Nat
        /\ Cardinality(failed') \in {Cardinality(failed), Cardinality(failed) + 1}
    BY <1>b, FS_AddElement, FS_CardinalityType DEF Afforded
  <2>2. QED
    BY <1>0, <1>b, <2>1 DEF Afforded
<1>1. ASSUME NEW r \in Requests, Handle(r)
      PROVE  UNCHANGED failed /\ faults' \in {faults, faults + 1}
  BY <1>1 DEF Handle, Commit, Find, AddJob, Answer, Break, queue
<1>2. ASSUME NEW w \in Webhooks, Subscribe(w) \/ Remove(w)
      PROVE  UNCHANGED <<failed, faults>>
  BY <1>2 DEF Subscribe, Remove, queue
<1>3. CASE Take
  BY <1>a, <1>3 DEF Take
<1>4. ASSUME NEW job \in active, Deliver(job) \/ Stall(job)
      PROVE  Afforded'
  <2>1. \/ UNCHANGED failed /\ faults' \in {faults, faults + 1}
        \/ failed' = failed \cup {job} /\ faults' = faults + 1
    BY <1>4, DeliverIs, StallIs
  <2>2. QED
    BY <1>a, <1>b, <2>1
<1>5. CASE UNCHANGED outboxVars
  BY <1>a, <1>5, NothingMoved
<1>6. QED
  BY <1>a, <1>1, <1>2, <1>3, <1>4, <1>5 DEF OutboxNext, Work

LEMMA CountedStep ==
  ASSUME OutboxTypes, Placed, Once, Counted, Once', [OutboxNext]_outboxVars
  PROVE  Counted'
<1>0. /\ Len(changes) \in Nat /\ faults \in Nat
      /\ \A w \in Webhooks, n \in 1..Len(changes) :
           Times(w, n) \in Nat /\ Times(w, n) <= faults + 1
           /\ (Owed(w, n) \/ OnItsWay(w, n) => Times(w, n) <= faults)
  BY TimesAre, LenProperties DEF Counted, OutboxTypes
\* No list grows, and whoever is to hear of a change was to before.
<1>a. ASSUME changes' = changes, arrived' = arrived, faults' \in {faults, faults + 1},
             \A w \in Webhooks, n \in 1..Len(changes) :
               OnItsWay(w, n)' => Owed(w, n) \/ OnItsWay(w, n)
      PROVE  Counted'
  <2>1. ASSUME NEW w \in Webhooks, NEW n \in 1..Len(changes)
        PROVE  Times(w, n)' <= faults' + (IF Owed(w, n)' \/ OnItsWay(w, n)' THEN 0 ELSE 1)
    <3>1. Times(w, n)' = Times(w, n)
      BY <1>a, TimesAre
    <3>2. Owed(w, n)' => Owed(w, n)
      BY OwedStep
    <3>3. QED
      BY <1>0, <1>a, <3>1, <3>2
  <2>2. QED
    BY <1>a, <2>1 DEF Counted
<1>1. ASSUME NEW r \in Requests, NEW c \in Change, Commit(r, c)
      PROVE  Counted'
  <2>1. /\ arrived' = arrived /\ faults' = faults /\ Jobs' = Jobs
        /\ Len(changes') = Len(changes) + 1
    BY <1>1, CommitIs DEF queue, Jobs
  <2>2. ASSUME NEW w \in Webhooks, NEW n \in 1..(Len(changes) + 1)
        PROVE  Times(w, n)' <= faults' + (IF Owed(w, n)' \/ OnItsWay(w, n)' THEN 0 ELSE 1)
    <3>1. Times(w, n)' = Times(w, n)
      BY <2>1, TimesAre
    <3>2. CASE n \in 1..Len(changes)
      <4>1. Owed(w, n)' => Owed(w, n)
        BY <3>2, OwedStep
      <4>2. OnItsWay(w, n)' => OnItsWay(w, n)
        BY <2>1 DEF OnItsWay
      <4>3. QED
        BY <1>0, <2>1, <3>1, <3>2, <4>1, <4>2
    <3>3. CASE n = Len(changes) + 1
      <4>1. arrived[w] \in Seq(Nat) /\ n \notin Range(arrived[w])
        BY <1>0, <3>3 DEF Placed, OutboxTypes
      <4>2. {i \in DOMAIN arrived[w] : arrived[w][i] = n} = {}
        BY <4>1 DEF Range
      <4>3. Times(w, n) = 0
        BY <4>2, FS_EmptySet DEF Times
      <4>4. QED
        BY <1>0, <2>1, <3>1, <4>3
    <3>4. QED
      BY <1>0, <3>2, <3>3
  <2>3. QED
    BY <2>1, <2>2 DEF Counted
<1>2. ASSUME NEW r \in Requests, Find(r)
      PROVE  Counted'
  <2>1. UNCHANGED <<changes, arrived, faults>> /\ Jobs' = Jobs
    BY <1>2, FindIs DEF queue, desk, Jobs
  <2> QED
    BY <1>a, <2>1 DEF OnItsWay
<1>3. ASSUME NEW r \in Requests, NEW v \in Webhooks, AddJob(r, v)
      PROVE  Counted'
  <2>1. PICK job \in Job : /\ job.webhook = v /\ job.change = request[r].change
                           /\ waiting' = Append(waiting, job)
    BY <1>3, AddJobIs
  <2>2. UNCHANGED <<changes, arrived, faults, active>> /\ v \in request[r].targets
    BY <1>3, AddJobIs DEF desk
  <2>3. Jobs' = Jobs \cup {job} /\ Owed(v, job.change)
    BY <2>1, <2>2, JobsAdded DEF Owed
  <2> QED
    BY <1>a, <2>1, <2>2, <2>3 DEF OnItsWay
<1>4. ASSUME NEW r \in Requests, Answer(r) \/ Break(r)
      PROVE  Counted'
  <2>1. UNCHANGED <<changes, arrived>> /\ Jobs' = Jobs /\ faults' \in {faults, faults + 1}
    BY <1>4, RequestEnds
  <2> QED
    BY <1>a, <2>1 DEF OnItsWay
<1>5. ASSUME NEW w \in Webhooks, Subscribe(w) \/ Remove(w)
      PROVE  Counted'
  <2>1. UNCHANGED <<changes, arrived, faults>> /\ Jobs' = Jobs
    BY <1>5 DEF Subscribe, Remove, queue, desk, Jobs
  <2> QED
    BY <1>a, <2>1 DEF OnItsWay
<1>6. CASE Take
  <2>1. UNCHANGED <<changes, arrived, faults>> /\ Jobs' = Jobs
    BY <1>6, TakeIs, JobsTaken DEF desk
  <2> QED
    BY <1>a, <2>1 DEF OnItsWay
<1>7. ASSUME NEW job \in active, Deliver(job) \/ Stall(job)
      PROVE  Counted'
  <2>1. /\ changes' = changes /\ request' = request
        /\ job \in Job /\ Came(job) /\ job \in Jobs
        /\ \A k \in Jobs' : \E j \in Jobs : Same(j, k)
    BY <1>7, WorkIs DEF Jobs
  <2>2. job.webhook \in Webhooks /\ job.change \in Nat /\ OnItsWay(job.webhook, job.change)
    BY <2>1 DEF Job, OnItsWay
  <2>3. ASSUME NEW w \in Webhooks, NEW n \in 1..Len(changes)
        PROVE  Times(w, n)' <= faults' + (IF Owed(w, n)' \/ OnItsWay(w, n)' THEN 0 ELSE 1)
    <3>1. Owed(w, n)' => Owed(w, n)
      BY OwedStep
    <3>2. OnItsWay(w, n)' => OnItsWay(w, n)
      BY <2>1 DEF OnItsWay, Same
    <3>3. CASE w # job.webhook \/ n # job.change
      <4>1. Times(w, n)' = Times(w, n)
        <5>1. Times(w, n) \in Nat /\ (arrived'[w] = arrived[w] => Times(w, n)' = Times(w, n))
          BY TimesAre
        <5>2. CASE w # job.webhook
          BY <2>1, <3>3, <5>1, <5>2, CameIs
        <5>3. CASE w = job.webhook /\ n # job.change
          <6>1. arrived'[w] = Append(arrived[w], job.change) => Times(w, n)' = Times(w, n) + 0
            BY <2>2, <5>3, TimesAre
          <6>2. arrived'[w] = arrived[w] \/ arrived'[w] = Append(arrived[w], job.change)
            BY <2>1, <5>3, CameIs
          <6>3. QED
            BY <5>1, <6>1, <6>2
        <5>4. QED
          BY <3>3, <5>2, <5>3
      <4>2. faults' \in {faults, faults + 1}
        BY <1>7, DeliverIs, StallIs
      <4>3. QED
        BY <1>0, <3>1, <3>2, <4>1, <4>2
    <3>4. CASE w = job.webhook /\ n = job.change
      <4>1. Times(w, n) <= faults /\ Times(w, n) \in Nat
        BY <1>0, <2>2, <3>4
      <4>2. Times(w, n)' \in {Times(w, n), Times(w, n) + 1}
        BY <2>1, <2>2, <3>4, CameIs, TimesAre
      <4>3. CASE faults' = faults + 1
        BY <1>0, <4>1, <4>2, <4>3
      <4>4. CASE faults' = faults /\ ~OnItsWay(w, n)'
        <5>1. ~Owed(w, n)
          BY <2>1, <3>4 DEF Once
        <5>2. QED
          BY <1>0, <3>1, <4>1, <4>2, <4>4, <5>1
      <4>5. faults' = faults => ~OnItsWay(w, n)'
        <5>1. SUFFICES ASSUME faults' = faults PROVE ~OnItsWay(w, n)'
          OBVIOUS
        <5>2. waiting' = waiting /\ active' = active \ {job}
          BY <1>0, <1>7, <5>1, DeliverIs, StallIs
        <5>3. \A k \in Jobs' : k \in active \ {job} \/ k \in Range(waiting)
          BY <5>2 DEF Jobs, Range
        <5>4. \A k \in Range(waiting) : ~Same(job, k)
          BY RangeIs DEF Once, OutboxTypes
        <5>5. \A k \in Jobs' : ~Same(job, k)
          BY <5>3, <5>4 DEF Once
        <5>6. QED
          BY <3>4, <5>5 DEF OnItsWay, Same
      <4>6. faults' \in {faults, faults + 1}
        BY <1>7, DeliverIs, StallIs
      <4>7. QED
        BY <4>3, <4>4, <4>5, <4>6
    <3>5. QED
      BY <3>3, <3>4
  <2>4. QED
    BY <2>1, <2>3 DEF Counted
<1>8. CASE UNCHANGED outboxVars
  BY <1>a, <1>8, NothingMoved DEF OnItsWay
<1>9. QED
  BY <1>1, <1>2, <1>3, <1>4, <1>5, <1>6, <1>7, <1>8
     DEF OutboxNext, Handle, Work

\* Nobody else is owed change n, as far as w goes.
Settled(w, n) ==
  \/ n \in answered
  \/ \E r \in Requests : /\ request[r].change = n /\ request[r].found
                         /\ w \notin request[r].targets

\* Who had subscribed before a change that is settled and does still has heard
\* of it, or a delivery to them is queued or was given up; and none is made that
\* nobody has asked for.
Told == \A w \in Webhooks, n \in 1..Len(changes) :
  /\ Settled(w, n) /\ Asked(w, n) /\ since[w] < n /\ w \notin removed => Known(w, n)
  /\ Known(w, n) => Asked(w, n)

\* What a request still has to queue has been asked for.
Due == \A r \in Requests : \A w \in request[r].targets :
  Asked(w, request[r].change)

LEMMA ToldStep ==
  ASSUME OutboxTypes, Placed, Told, Due, [OutboxNext]_outboxVars
  PROVE  Told'
<1>0. Len(changes) \in Nat
  BY LenProperties DEF OutboxTypes
\* Nothing is committed, and nobody subscribes.
<1>a. ASSUME UNCHANGED <<changes, since, removed>>,
             NEW w \in Webhooks, NEW n \in 1..Len(changes),
             Settled(w, n)' /\ ~Settled(w, n) =>
               ~(Asked(w, n) /\ w \notin removed) \/ Known(w, n)',
             Known(w, n) => Known(w, n)',
             Known(w, n)' => Known(w, n) \/ Asked(w, n)
      PROVE  /\ Settled(w, n)' /\ Asked(w, n)' /\ since'[w] < n /\ w \notin removed'
                  => Known(w, n)'
             /\ Known(w, n)' => Asked(w, n)'
  <2>1. Asked(w, n)' <=> Asked(w, n)
    BY <1>a DEF Asked
  <2>2. QED
    BY <1>a, <2>1 DEF Told
<1>1. ASSUME NEW r \in Requests, NEW c \in Change, Commit(r, c)
      PROVE  Told'
  <2>1. /\ UNCHANGED <<answered, since, removed, failed, arrived>> /\ Jobs' = Jobs
        /\ Len(changes') = Len(changes) + 1
        /\ \A n \in 1..Len(changes) : changes'[n] = changes[n]
        /\ changes'[Len(changes) + 1] = c /\ c \in Change
        /\ \A s \in Requests \ {r} : request'[s] = request[s]
        /\ request'[r].change = Len(changes) + 1 /\ request'[r].targets = {}
        /\ request'[r].found => c.event \in Silent
    BY <1>1, CommitIs DEF queue, hooks, Jobs
  <2>2. ASSUME NEW w \in Webhooks, NEW n \in 1..Len(changes)
        PROVE  /\ Settled(w, n)' => Settled(w, n)
               /\ Asked(w, n)' <=> Asked(w, n)
               /\ Known(w, n)' <=> Known(w, n)
    BY <1>0, <2>1 DEF Settled, Asked, Known
  <2>3. ASSUME NEW w \in Webhooks, NEW n \in Nat, n = Len(changes) + 1
        PROVE  ~Known(w, n)' /\ ~(Settled(w, n)' /\ Asked(w, n)')
    <3>1. ~Known(w, n)'
      BY <1>0, <2>1, <2>3 DEF Known, Placed
    <3>2. Settled(w, n)' => c.event \in Silent
      BY <1>0, <2>1, <2>3 DEF Settled, Placed
    <3>3. Wants[w] \subseteq Events /\ Events \cap Silent = {}
      BY OutboxAssumption DEF Events, Silent
    <3>4. Asked(w, n)' => c.event \notin Silent
      BY <2>1, <2>3, <3>3 DEF Asked
    <3>5. QED
      BY <3>1, <3>2, <3>4
  <2>4. ASSUME NEW w \in Webhooks, NEW n \in 1..(Len(changes) + 1)
        PROVE  /\ Settled(w, n)' /\ Asked(w, n)' /\ since'[w] < n /\ w \notin removed'
                    => Known(w, n)'
               /\ Known(w, n)' => Asked(w, n)'
    <3>1. CASE n \in 1..Len(changes)
      BY <2>1, <2>2, <3>1 DEF Told
    <3>2. CASE n = Len(changes) + 1
      BY <1>0, <2>3, <3>2
    <3>3. QED
      BY <1>0, <3>1, <3>2
  <2> QED
    BY <2>1, <2>4 DEF Told
<1>2. ASSUME NEW r \in Requests, Find(r)
      PROVE  Told'
  <2>1. /\ UNCHANGED <<changes, answered, since, removed, failed, arrived>> /\ Jobs' = Jobs
        /\ \A s \in Requests \ {r} : request'[s] = request[s]
        /\ request'[r].change = request[r].change
        /\ request'[r].targets = Subscribers(request[r].change)
    BY <1>2, FindIs DEF queue, hooks, desk, Jobs
  <2>2. ASSUME NEW w \in Webhooks, NEW n \in 1..Len(changes)
        PROVE  /\ Known(w, n)' <=> Known(w, n)
               /\ Settled(w, n)' /\ ~Settled(w, n) => ~(Asked(w, n) /\ w \notin removed)
    <3>1. Known(w, n)' <=> Known(w, n)
      BY <2>1 DEF Known
    <3>2. Settled(w, n)' /\ ~Settled(w, n) =>
            n = request[r].change /\ w \notin Subscribers(request[r].change)
      BY <2>1 DEF Settled
    <3>3. QED
      BY <3>1, <3>2 DEF Subscribers, Asked
  <2> QED
    BY <1>a, <2>1, <2>2 DEF Told
<1>3. ASSUME NEW r \in Requests, NEW v \in Webhooks, AddJob(r, v)
      PROVE  Told'
  <2>1. PICK job \in Job : /\ job.webhook = v /\ job.change = request[r].change
                           /\ waiting' = Append(waiting, job)
    BY <1>3, AddJobIs
  <2>2. /\ UNCHANGED <<changes, answered, since, removed, failed, arrived, active>>
        /\ v \in request[r].targets
        /\ \A s \in Requests \ {r} : request'[s] = request[s]
        /\ request'[r].change = request[r].change
        /\ request'[r].found = request[r].found
        /\ request'[r].targets = request[r].targets \ {v}
    BY <1>3, AddJobIs DEF desk, hooks
  <2>3. Jobs' = Jobs \cup {job} /\ Asked(v, job.change)
    BY <2>1, <2>2, JobsAdded DEF Due
  <2>4. ASSUME NEW w \in Webhooks, NEW n \in 1..Len(changes)
        PROVE  /\ Known(w, n) => Known(w, n)'
               /\ Known(w, n)' => Known(w, n) \/ Asked(w, n)
               /\ Settled(w, n)' /\ ~Settled(w, n) => Known(w, n)'
    <3>1. Known(w, n) => Known(w, n)'
      BY <2>2, <2>3 DEF Known
    <3>2. Known(w, n)' => Known(w, n) \/ Asked(w, n)
      BY <2>1, <2>2, <2>3 DEF Known
    <3>3. Settled(w, n)' /\ ~Settled(w, n) => w = v /\ n = job.change
      BY <2>1, <2>2 DEF Settled
    <3>4. Known(v, job.change)'
      BY <2>1, <2>3 DEF Known
    <3>5. QED
      BY <3>1, <3>2, <3>3, <3>4
  <2> QED
    BY <1>a, <2>2, <2>4 DEF Told
<1>4. ASSUME NEW r \in Requests, Answer(r) \/ Break(r)
      PROVE  Told'
  <2>1. /\ UNCHANGED <<changes, since, removed, failed, arrived>> /\ Jobs' = Jobs
        /\ request'[r] = AtRest
        /\ \A s \in Requests \ {r} : request'[s] = request[s]
        /\ \/ answered' = answered
           \/ /\ answered' = answered \cup {request[r].change}
              /\ request[r].found /\ request[r].targets = {}
    BY <1>4, RequestEnds
  <2>2. ASSUME NEW w \in Webhooks, NEW n \in 1..Len(changes)
        PROVE  /\ Known(w, n)' <=> Known(w, n)
               /\ Settled(w, n)' => Settled(w, n)
    <3>1. Known(w, n)' <=> Known(w, n)
      BY <2>1 DEF Known
    <3>2. Settled(w, n)' => Settled(w, n)
      BY <2>1, AtRestIs DEF Settled
    <3>3. QED
      BY <3>1, <3>2
  <2> QED
    BY <1>a, <2>1, <2>2 DEF Told
<1>5. ASSUME NEW v \in Webhooks, Subscribe(v) \/ Remove(v)
      PROVE  Told'
  <2>1. /\ UNCHANGED <<changes, answered, request, failed, arrived>> /\ Jobs' = Jobs
        /\ removed \subseteq removed'
    BY <1>5 DEF Subscribe, Remove, queue, desk, Jobs
  <2>2. ASSUME NEW w \in Webhooks
        PROVE  \/ since'[w] = since[w]
               \/ since[w] = NULL /\ since'[w] = Len(changes)
    BY <1>5 DEF Subscribe, Remove, OutboxTypes
  <2>3. ASSUME NEW w \in Webhooks, NEW n \in 1..Len(changes)
        PROVE  /\ Settled(w, n)' /\ Asked(w, n)' /\ since'[w] < n /\ w \notin removed'
                    => Known(w, n)'
               /\ Known(w, n)' => Asked(w, n)'
    <3>1. /\ Known(w, n)' <=> Known(w, n)
          /\ Settled(w, n)' <=> Settled(w, n)
      BY <2>1 DEF Known, Settled
    <3>2. CASE since'[w] = since[w]
      BY <2>1, <3>1, <3>2 DEF Told, Asked
    <3>3. CASE since[w] = NULL /\ since'[w] = Len(changes)
      BY <1>0, <2>1, <3>1, <3>3 DEF Told, Asked
    <3>4. QED
      BY <2>2, <3>2, <3>3
  <2> QED
    BY <2>1, <2>3 DEF Told
<1>6. CASE Take
  <2>1. /\ UNCHANGED <<changes, answered, request, since, removed, failed, arrived>>
        /\ Jobs' = Jobs
    BY <1>6, TakeIs, JobsTaken DEF desk, hooks
  <2> QED
    BY <2>1 DEF Told, Known, Settled, Asked
<1>7. ASSUME NEW job \in active, Deliver(job) \/ Stall(job)
      PROVE  Told'
  <2>1. /\ UNCHANGED <<changes, answered, request, since, removed>>
        /\ \A w \in Webhooks, n \in Nat : Known(w, n)' <=> Known(w, n)
    BY <1>7, WorkIs
  <2>2. ASSUME NEW w \in Webhooks, NEW n \in 1..Len(changes)
        PROVE  (Known(w, n)' <=> Known(w, n)) /\ (Settled(w, n)' <=> Settled(w, n))
    BY <1>0, <2>1 DEF Settled
  <2> QED
    BY <1>a, <2>1, <2>2 DEF Told
<1>8. CASE UNCHANGED outboxVars
  BY <1>8, NothingMoved DEF Told, Known, Settled, Asked
<1>9. QED
  BY <1>1, <1>2, <1>3, <1>4, <1>5, <1>6, <1>7, <1>8
     DEF OutboxNext, Handle, Work

LEMMA DueStep ==
  ASSUME OutboxTypes, Placed, Due, [OutboxNext]_outboxVars
  PROVE  Due'
<1>1. ASSUME NEW r \in Requests, NEW c \in Change, Commit(r, c)
      PROVE  Due'
  <2>1. /\ UNCHANGED since
        /\ Len(changes) \in Nat
        /\ \A n \in 1..Len(changes) : changes'[n] = changes[n]
        /\ \A s \in Requests \ {r} : request'[s] = request[s]
        /\ request'[r].targets = {}
    BY <1>1, CommitIs DEF hooks
  <2>2. \A s \in Requests : request[s].targets # {} => request[s].change \in 1..Len(changes)
    BY <2>1, AtRestIs DEF Placed, Resting
  <2> QED
    BY <2>1, <2>2 DEF Due, Asked
<1>2. ASSUME NEW r \in Requests, Find(r)
      PROVE  Due'
  <2>1. /\ UNCHANGED <<changes, since>>
        /\ \A s \in Requests \ {r} : request'[s] = request[s]
        /\ request'[r].change = request[r].change
        /\ request'[r].targets = Subscribers(request[r].change)
    BY <1>2, FindIs DEF hooks, desk
  <2> QED
    BY <2>1 DEF Due, Asked, Subscribers
<1>3. ASSUME NEW r \in Requests, NEW v \in Webhooks, AddJob(r, v)
      PROVE  Due'
  <2>1. /\ UNCHANGED <<changes, since>>
        /\ \A s \in Requests \ {r} : request'[s] = request[s]
        /\ request'[r].change = request[r].change
        /\ request'[r].targets \subseteq request[r].targets
    BY <1>3, AddJobIs DEF hooks, desk
  <2> QED
    BY <2>1 DEF Due, Asked
<1>4. ASSUME NEW r \in Requests, Answer(r) \/ Break(r)
      PROVE  Due'
  <2>1. /\ UNCHANGED <<changes, since>>
        /\ \A s \in Requests \ {r} : request'[s] = request[s]
        /\ request'[r].targets = {}
    BY <1>4, RequestEnds, AtRestIs
  <2> QED
    BY <2>1 DEF Due, Asked
<1>5. ASSUME NEW v \in Webhooks, Subscribe(v) \/ Remove(v)
      PROVE  Due'
  <2>1. UNCHANGED <<changes, request>>
    BY <1>5 DEF Subscribe, Remove, desk
  <2>2. \A w \in Webhooks : since[w] # NULL => since'[w] = since[w]
    BY <1>5 DEF Subscribe, Remove, OutboxTypes
  <2>3. \A r \in Requests : request[r].targets \subseteq Webhooks
    BY DEF OutboxTypes, Handling
  <2> QED
    BY <2>1, <2>2, <2>3 DEF Due, Asked
<1>6. CASE UNCHANGED <<changes, since, request>>
  BY <1>6 DEF Due, Asked
<1>7. CASE Take
  BY <1>6, <1>7 DEF Take, desk, hooks
<1>8. ASSUME NEW job \in active, Deliver(job) \/ Stall(job)
      PROVE  UNCHANGED <<changes, since, request>>
  BY <1>8 DEF Deliver, Stall, desk, hooks
<1>9. CASE UNCHANGED outboxVars
  BY <1>6, <1>9, NothingMoved
<1>10. QED
  BY <1>1, <1>2, <1>3, <1>4, <1>5, <1>6, <1>7, <1>8, <1>9
     DEF OutboxNext, Handle, Work

\* Without overlap and without a fault, one request is about the last change,
\* and each subscriber's changes come in order.
InOrder ==
  /\ \A w \in Webhooks : \A i, j \in 1..Len(arrived[w]) :
       i < j => arrived[w][i] <= arrived[w][j]
  /\ \A i, j \in 1..Len(waiting) :
       i < j /\ waiting[i].webhook = waiting[j].webhook =>
         waiting[i].change <= waiting[j].change
  /\ \A job \in active, i \in 1..Len(waiting) :
       job.webhook = waiting[i].webhook => job.change <= waiting[i].change
  /\ \A job \in Jobs : \A n \in Range(arrived[job.webhook]) : n <= job.change
Ordered ==
  ~raced /\ faults = 0 =>
    /\ failed = {}
    /\ \A r \in Requests : request[r].change \in {0, Len(changes)}
    /\ \A j, k \in active : j = k
    /\ InOrder

\* The status is what was last set, and every kind of change has a last one.
LastSet == \A n \in 1..Len(changes) :
  (\A m \in 1..Len(changes) : m > n => changes[m].event = "ticket.escalated")
    => changes[n].to = status
HasLast == \A kinds \in SUBSET (Events \cup Silent) :
  (\E n \in 1..Len(changes) : changes[n].event \in kinds) =>
    \E n \in 1..Len(changes) : /\ changes[n].event \in kinds
                               /\ \A m \in 1..Len(changes) :
                                    changes[m].event \in kinds => m <= n

LEMMA InOrderAdded ==
  ASSUME OutboxTypes, Placed, InOrder, NEW job \in Job, job.change = Len(changes),
         waiting' = Append(waiting, job), UNCHANGED <<active, arrived>>
  PROVE  InOrder'
<1>1. /\ Len(waiting) \in Nat /\ Len(waiting') = Len(waiting) + 1
      /\ \A i \in 1..Len(waiting) : waiting'[i] = waiting[i]
      /\ waiting'[Len(waiting) + 1] = job
  BY Lengthened DEF OutboxTypes
<1>2. \A i \in 1..Len(waiting') : i \in 1..Len(waiting) \/ i = Len(waiting) + 1
  BY <1>1
<1>3. /\ Jobs' = Jobs \cup {job}
      /\ Len(changes) \in Nat /\ job.webhook \in Webhooks
  BY JobsAdded, LenProperties DEF OutboxTypes, Job
<1>4. \A k \in Jobs : k.change \in 1..Len(changes)
  BY DEF Placed
<1>5. \A i, j \in 1..Len(waiting') :
        i < j /\ waiting'[i].webhook = waiting'[j].webhook =>
          waiting'[i].change <= waiting'[j].change
  <2>1. SUFFICES ASSUME NEW i \in 1..Len(waiting'), NEW j \in 1..Len(waiting'), i < j,
                        waiting'[i].webhook = waiting'[j].webhook
                 PROVE  waiting'[i].change <= waiting'[j].change
    OBVIOUS
  <2>2. i \in 1..Len(waiting) /\ waiting[i] \in Jobs /\ waiting'[i] = waiting[i]
    BY <1>1, <1>2, <2>1, JobIsKnown
  <2>3. CASE j \in 1..Len(waiting)
    BY <1>1, <2>1, <2>2, <2>3 DEF InOrder
  <2>4. CASE j = Len(waiting) + 1
    BY <1>1, <1>3, <1>4, <2>2, <2>4
  <2>5. QED
    BY <1>2, <2>3, <2>4
<1>6. \A k \in active', i \in 1..Len(waiting') :
        k.webhook = waiting'[i].webhook => k.change <= waiting'[i].change
  <2>1. SUFFICES ASSUME NEW k \in active, NEW i \in 1..Len(waiting'),
                        k.webhook = waiting'[i].webhook
                 PROVE  k.change <= waiting'[i].change
    OBVIOUS
  <2>2. k \in Jobs
    BY JobIsKnown
  <2>3. CASE i \in 1..Len(waiting)
    BY <1>1, <2>1, <2>3 DEF InOrder
  <2>4. CASE i = Len(waiting) + 1
    BY <1>1, <1>3, <1>4, <2>2, <2>4
  <2>5. QED
    BY <1>2, <2>3, <2>4
<1>7. \A k \in Jobs' : \A n \in Range(arrived'[k.webhook]) : n <= k.change
  BY <1>3 DEF InOrder, Placed
<1>8. QED
  BY <1>5, <1>6, <1>7 DEF InOrder

LEMMA InOrderTaken ==
  ASSUME OutboxTypes, InOrder, Take
  PROVE  active = {} => InOrder'
<1> SUFFICES ASSUME active = {} PROVE InOrder'
  OBVIOUS
<1>1. /\ Head(waiting) = waiting[1] /\ active' = {Head(waiting)}
      /\ Len(waiting) \in Nat /\ Len(waiting) > 0
      /\ Len(waiting') = Len(waiting) - 1 /\ arrived' = arrived
      /\ \A i \in 1..Len(waiting') : waiting'[i] = waiting[i + 1]
  BY TakeIs
<1>2. 1 \in 1..Len(waiting)
      /\ \A i \in 1..Len(waiting') : i + 1 \in 1..Len(waiting) /\ 1 < i + 1
  BY <1>1
<1>3. Jobs' = Jobs
  BY JobsTaken
<1>4. \A i, j \in 1..Len(waiting') :
        i < j /\ waiting'[i].webhook = waiting'[j].webhook =>
          waiting'[i].change <= waiting'[j].change
  BY <1>1, <1>2 DEF InOrder
<1>5. \A k \in active', i \in 1..Len(waiting') :
        k.webhook = waiting'[i].webhook => k.change <= waiting'[i].change
  BY <1>1, <1>2 DEF InOrder
<1>6. QED
  BY <1>1, <1>3, <1>4, <1>5 DEF InOrder

LEMMA InOrderDelivered ==
  ASSUME OutboxTypes, InOrder, NEW job \in active, Deliver(job),
         faults' = faults, \A j, k \in active : j = k
  PROVE  InOrder' /\ failed' = failed
<1>1. /\ waiting' = waiting /\ active' = {} /\ failed' = failed
      /\ arrived' = [arrived EXCEPT ![job.webhook] = Append(@, job.change)]
      /\ job \in Job /\ job.webhook \in Webhooks /\ job.change \in Nat
      /\ job \in Jobs
  <2>1. job \in Job /\ job \in Jobs /\ faults \in Nat
    BY JobIsKnown DEF OutboxTypes
  <2>2. job.webhook \in Webhooks /\ job.change \in Nat
    BY <2>1 DEF Job
  <2>3. /\ waiting' = waiting /\ failed' = failed
        /\ arrived' = [arrived EXCEPT ![job.webhook] = Append(@, job.change)]
    BY <2>1, DeliverIs
  <2>4. active' = {}
    BY DeliverIs
  <2>5. QED
    BY <2>1, <2>2, <2>3, <2>4
<1>2. /\ arrived'[job.webhook] = Append(arrived[job.webhook], job.change)
      /\ \A w \in Webhooks \ {job.webhook} : arrived'[w] = arrived[w]
      /\ arrived[job.webhook] \in Seq(Nat)
  BY <1>1 DEF OutboxTypes
<1>3. /\ Len(arrived[job.webhook]) \in Nat
      /\ Len(arrived'[job.webhook]) = Len(arrived[job.webhook]) + 1
      /\ \A i \in 1..Len(arrived[job.webhook]) : arrived'[job.webhook][i] = arrived[job.webhook][i]
      /\ arrived'[job.webhook][Len(arrived[job.webhook]) + 1] = job.change
      /\ Range(arrived'[job.webhook]) = Range(arrived[job.webhook]) \cup {job.change}
  BY <1>1, <1>2, Lengthened, RangeAdded
<1>4. \A i \in 1..Len(arrived[job.webhook]) : arrived[job.webhook][i] <= job.change
  BY <1>1, <1>2, RangeIs DEF InOrder
<1>5. ASSUME NEW w \in Webhooks, NEW i \in 1..Len(arrived'[w]),
             NEW j \in 1..Len(arrived'[w]), i < j
      PROVE  arrived'[w][i] <= arrived'[w][j]
  <2>1. CASE w # job.webhook
    BY <1>2, <1>5, <2>1 DEF InOrder
  <2>2. CASE w = job.webhook
    <3>1. i \in 1..Len(arrived[w])
      BY <1>3, <1>5, <2>2
    <3>2. CASE j \in 1..Len(arrived[w])
      BY <1>3, <1>5, <2>2, <3>1, <3>2 DEF InOrder
    <3>3. CASE j = Len(arrived[w]) + 1
      BY <1>3, <1>4, <2>2, <3>1, <3>3
    <3>4. QED
      BY <1>3, <1>5, <2>2, <3>2, <3>3
  <2>3. QED
    BY <2>1, <2>2
<1>6. Jobs' = Range(waiting)
  BY <1>1 DEF Jobs, Range
<1>7. ASSUME NEW k \in Jobs', NEW n \in Range(arrived'[k.webhook])
      PROVE  n <= k.change
  <2>1. k \in Jobs /\ k.webhook \in Webhooks
    BY <1>6, <1>7, JobsAre, JobIsKnown
  <2>2. CASE n \in Range(arrived[k.webhook])
    BY <2>1, <2>2 DEF InOrder
  <2>3. CASE k.webhook = job.webhook /\ n = job.change
    <3>1. PICK i \in 1..Len(waiting) : k = waiting[i]
      BY <1>6, <1>7, RangeIs DEF OutboxTypes
    <3>2. QED
      BY <2>3, <3>1 DEF InOrder
  <2>4. QED
    BY <1>2, <1>3, <1>7, <2>1, <2>2, <2>3
<1>8. QED
  BY <1>1, <1>5, <1>7 DEF InOrder

LEMMA OrderedStep ==
  ASSUME OutboxTypes, Placed, Ordered, [OutboxNext]_outboxVars
  PROVE  Ordered'
<1>0. faults \in Nat /\ Len(changes) \in Nat
  BY LenProperties DEF OutboxTypes
<1>a. ASSUME UNCHANGED <<waiting, active, arrived, failed>>, raced' => TRUE,
             ~raced' /\ faults' = 0 =>
               ~raced /\ faults = 0 /\
               \A r \in Requests : request'[r].change \in {0, Len(changes')}
      PROVE  Ordered'
  <2>1. Jobs' = Jobs
    BY <1>a DEF Jobs
  <2>2. QED
    BY <1>a, <2>1 DEF Ordered, InOrder
<1>1. ASSUME NEW r \in Requests, NEW c \in Change, Commit(r, c)
      PROVE  Ordered'
  <2>1. /\ UNCHANGED <<waiting, active, arrived, failed, faults>>
        /\ Len(changes') = Len(changes) + 1
        /\ \A s \in Requests \ {r} : request'[s] = request[s]
        /\ request'[r].change = Len(changes) + 1
        /\ ~raced' => ~raced /\ \A s \in Requests : request[s] = AtRest
    BY <1>1, CommitIs DEF queue
  <2> QED
    BY <1>a, <2>1, AtRestIs
<1>2. ASSUME NEW r \in Requests, Find(r)
      PROVE  Ordered'
  <2>1. /\ UNCHANGED <<waiting, active, arrived, failed, faults, raced, changes>>
        /\ \A s \in Requests : request'[s].change = request[s].change
    BY <1>2, FindIs DEF queue, desk
  <2> QED
    BY <1>a, <2>1 DEF Ordered
<1>3. ASSUME NEW r \in Requests, NEW v \in Webhooks, AddJob(r, v)
      PROVE  Ordered'
  <2>1. PICK job \in Job : /\ job.webhook = v /\ job.change = request[r].change
                           /\ waiting' = Append(waiting, job)
    BY <1>3, AddJobIs
  <2>2. /\ UNCHANGED <<active, arrived, failed, faults, raced, changes>>
        /\ \A s \in Requests : request'[s].change = request[s].change
        /\ v \in request[r].targets
    BY <1>3, AddJobIs DEF desk
  <2>3. request[r].change # 0
    BY <2>2, AtRestIs DEF Placed, Resting
  <2>4. ~raced /\ faults = 0 => job.change = Len(changes)
    BY <2>1, <2>3 DEF Ordered
  <2> QED
    BY <2>1, <2>2, <2>4, InOrderAdded DEF Ordered
<1>4. ASSUME NEW r \in Requests, Answer(r) \/ Break(r)
      PROVE  Ordered'
  <2>1. /\ UNCHANGED <<waiting, active, arrived, failed, raced, changes>>
        /\ \A s \in Requests \ {r} : request'[s] = request[s]
        /\ request'[r].change = 0 /\ faults' \in {faults, faults + 1}
    BY <1>4, RequestEnds, AtRestIs
  <2> QED
    BY <1>0, <1>a, <2>1 DEF Ordered
<1>5. ASSUME NEW w \in Webhooks, Subscribe(w) \/ Remove(w)
      PROVE  Ordered'
  <2>1. UNCHANGED <<waiting, active, arrived, failed, raced, changes, request, faults>>
    BY <1>5 DEF Subscribe, Remove, queue, desk
  <2> QED
    BY <1>a, <2>1 DEF Ordered
<1>6. CASE Take
  <2>1. /\ UNCHANGED <<failed, faults, request, changes>>
        /\ ~raced' => ~raced /\ active = {}
        /\ active' = active \cup {Head(waiting)}
    BY <1>6, TakeIs DEF desk
  <2>2. ~raced' /\ faults' = 0 => InOrder'
    BY <1>6, <2>1, InOrderTaken DEF Ordered
  <2> QED
    BY <2>1, <2>2 DEF Ordered
<1>7. ASSUME NEW job \in active, Deliver(job)
      PROVE  Ordered'
  <2>1. /\ UNCHANGED <<request, changes, raced>> /\ active' \subseteq active
        /\ faults' \in {faults, faults + 1}
    BY <1>7, DeliverIs DEF desk
  <2>2. ~raced' /\ faults' = 0 => InOrder' /\ failed' = failed
    BY <1>0, <1>7, <2>1, InOrderDelivered DEF Ordered
  <2> QED
    BY <1>0, <2>1, <2>2 DEF Ordered
<1>8. ASSUME NEW job \in active, Stall(job)
      PROVE  Ordered'
  <2>1. faults' = faults + 1
    BY <1>8 DEF Stall
  <2> QED
    BY <1>0, <2>1 DEF Ordered
<1>9. CASE UNCHANGED outboxVars
  BY <1>a, <1>9, NothingMoved DEF Ordered
<1>10. QED
  BY <1>1, <1>2, <1>3, <1>4, <1>5, <1>6, <1>7, <1>8, <1>9
     DEF OutboxNext, Handle, Work

LEMMA LastStep ==
  ASSUME OutboxTypes, LastSet, HasLast, [OutboxNext]_outboxVars
  PROVE  LastSet' /\ HasLast'
<1>1. ASSUME NEW r \in Requests, NEW c \in Change, Commit(r, c)
      PROVE  LastSet' /\ HasLast'
  <2>1. /\ Len(changes) \in Nat /\ Len(changes') = Len(changes) + 1
        /\ \A n \in 1..Len(changes) : changes'[n] = changes[n]
        /\ changes'[Len(changes) + 1] = c /\ status' = c.to
        /\ Allowed(c)
    BY <1>1, CommitIs
  <2>2. c.event = "ticket.escalated" => c.to = status
    BY <2>1 DEF Allowed
  <2>3. PICK last \in Nat : last = Len(changes) + 1
    BY <2>1
  <2>4. \A n \in 1..last : n \in 1..Len(changes) \/ n = last
    BY <2>1, <2>3
  <2>5. LastSet'
    <3>1. SUFFICES ASSUME NEW n \in 1..last,
                     \A m \in 1..last : m > n => changes'[m].event = "ticket.escalated"
                   PROVE  changes'[n].to = status'
      BY <2>1, <2>3 DEF LastSet
    <3>2. CASE n = last
      BY <2>1, <2>3, <3>2
    <3>3. CASE n \in 1..Len(changes)
      <4>1. last \in 1..last /\ last > n /\ changes'[last] = c
        BY <2>1, <2>3, <3>3
      <4>2. c.to = status
        BY <2>2, <3>1, <4>1
      <4>3. \A m \in 1..Len(changes) : m > n => changes[m].event = "ticket.escalated"
        BY <2>1, <2>3, <3>1
      <4>4. QED
        BY <2>1, <3>3, <4>2, <4>3 DEF LastSet
    <3>4. QED
      BY <2>4, <3>2, <3>3
  <2>6. HasLast'
    <3>1. SUFFICES ASSUME NEW kinds \in SUBSET (Events \cup Silent),
                     \E n \in 1..last : changes'[n].event \in kinds
                   PROVE  \E n \in 1..last : /\ changes'[n].event \in kinds
                            /\ \A m \in 1..last : changes'[m].event \in kinds => m <= n
      BY <2>1, <2>3 DEF HasLast
    <3>2. CASE c.event \in kinds
      <4>1. last \in 1..last /\ changes'[last].event \in kinds
            /\ \A m \in 1..last : m <= last
        BY <2>1, <2>3, <3>2
      <4>2. QED
        BY <4>1
    <3>3. CASE c.event \notin kinds
      <4>1. \A n \in 1..last : changes'[n].event \in kinds =>
              n \in 1..Len(changes) /\ changes[n].event \in kinds
        BY <2>1, <2>3, <2>4, <3>3
      <4>2. PICK n \in 1..Len(changes) :
              /\ changes[n].event \in kinds
              /\ \A m \in 1..Len(changes) : changes[m].event \in kinds => m <= n
        BY <3>1, <4>1 DEF HasLast
      <4>3. n \in 1..last /\ changes'[n].event \in kinds
        BY <2>1, <2>3, <4>2
      <4>4. QED
        BY <4>1, <4>2, <4>3
    <3>4. QED
      BY <3>2, <3>3
  <2>7. QED
    BY <2>5, <2>6
<1>2. CASE UNCHANGED <<status, changes>>
  BY <1>2 DEF LastSet, HasLast
<1>3. ASSUME NEW r \in Requests,
             Find(r) \/ (\E w \in Webhooks : AddJob(r, w)) \/ Answer(r) \/ Break(r)
      PROVE  UNCHANGED <<status, changes>>
  BY <1>3 DEF Find, AddJob, Answer, Break, desk
<1>4. ASSUME NEW w \in Webhooks, Subscribe(w) \/ Remove(w)
      PROVE  UNCHANGED <<status, changes>>
  BY <1>4 DEF Subscribe, Remove, desk
<1>5. ASSUME Work
      PROVE  UNCHANGED <<status, changes>>
  BY <1>5 DEF Work, Take, Deliver, Stall, desk
<1>6. CASE UNCHANGED outboxVars
  BY <1>2, <1>6, NothingMoved
<1>7. QED
  BY <1>1, <1>2, <1>3, <1>4, <1>5, <1>6 DEF OutboxNext, Handle

-----------------------------------------------------------------------------
OutboxIInv ==
  /\ OutboxTypes /\ Placed /\ Once /\ Afforded /\ Counted /\ Told /\ Due
  /\ Ordered /\ LastSet /\ HasLast

LEMMA OutboxBegin == OutboxInit => OutboxIInv
<1> SUFFICES ASSUME OutboxInit PROVE OutboxIInv
  OBVIOUS
<1>1. /\ changes = <<>> /\ Len(changes) = 0 /\ answered = {} /\ faults = 0
      /\ waiting = <<>> /\ Len(waiting) = 0 /\ active = {} /\ failed = {}
      /\ \A w \in Webhooks : arrived[w] = <<>> /\ Len(arrived[w]) = 0
      /\ \A r \in Requests : request[r] = AtRest
  BY EmptySeq DEF OutboxInit
<1>2. \A n : n \notin 1..0
  OBVIOUS
<1>3. OutboxTypes
  <2>1. /\ changes \in Seq(Change) /\ waiting \in Seq(Job) /\ <<>> \in Seq(Nat)
    BY <1>1, EmptySeq
  <2>2. request \in [Requests -> Handling] /\ since \in [Webhooks -> Nat \cup {NULL}]
    BY AtRestIs DEF OutboxInit
  <2>3. arrived \in [Webhooks -> Seq(Nat)]
    BY <2>1 DEF OutboxInit
  <2>4. active \subseteq Job /\ failed \subseteq Job /\ faults \in Nat /\ raced \in BOOLEAN
    BY DEF OutboxInit
  <2>5. QED
    BY <2>1, <2>2, <2>3, <2>4 DEF OutboxTypes
<1>4. Jobs = {} /\ \A w \in Webhooks : Range(arrived[w]) = {}
  <2>1. Range(waiting) = {} /\ \A w \in Webhooks : Range(arrived[w]) = {}
    BY <1>1, <1>2, <1>3, RangeIs DEF OutboxTypes
  <2>2. QED
    BY <1>1, <2>1, JobsAre
<1>5. Placed
  <2>1. ASSUME NEW r \in Requests
        PROVE  /\ request[r].change \in 0..Len(changes)
               /\ Resting(request[r])
               /\ request[r].targets # {} => request[r].found
    BY <1>1, AtRestIs DEF Resting
  <2>2. QED
    BY <1>1, <1>4, <2>1 DEF Placed
<1>6. Once /\ Afforded
  BY <1>1, <1>2, <1>4, AtRestIs, FS_EmptySet DEF Once, Afforded
<1>7. Counted /\ Told /\ LastSet /\ HasLast
  BY <1>1, <1>2 DEF Counted, Told, LastSet, HasLast
<1>8. Due
  BY <1>1, AtRestIs DEF Due
<1>9. Ordered
  BY <1>1, <1>2, <1>4, AtRestIs DEF Ordered, InOrder
<1>10. QED
  BY <1>3, <1>5, <1>6, <1>7, <1>8, <1>9 DEF OutboxIInv

\* The invariant of requests, queue and subscribers: for any requests, webhooks,
\* workers and faults.
THEOREM OutboxInvariance == OutboxSpec => []OutboxIInv
<1>1. OutboxIInv /\ [OutboxNext]_outboxVars => OutboxIInv'
  <2> SUFFICES ASSUME OutboxIInv, [OutboxNext]_outboxVars PROVE OutboxIInv'
    OBVIOUS
  <2>1. OutboxTypes' /\ Placed' /\ Once'
    BY OutboxTypesStep, PlacedStep, OnceStep DEF OutboxIInv
  <2>2. Afforded' /\ Counted' /\ Told' /\ Due'
    BY <2>1, AffordedStep, CountedStep, ToldStep, DueStep DEF OutboxIInv
  <2>3. Ordered' /\ LastSet' /\ HasLast'
    BY OrderedStep, LastStep DEF OutboxIInv
  <2>4. QED
    BY <2>1, <2>2, <2>3 DEF OutboxIInv
<1>2. QED
  BY <1>1, OutboxBegin, PTL DEF OutboxSpec

\* What a webhook that has subscribed misses, once a request is answered, it
\* misses by a delivery that has failed, of which there are no more than there
\* were faults; nobody is sent what they have not asked for; and only the death
\* of a worker, or a failure after the fact, sends anything twice; however
\* requests, deliveries, subscriptions and faults interleave.
THEOREM FailuresAloneAreMissed == OutboxSpec => []OnlyFailuresAreMissed
<1>1. OutboxIInv => OnlyFailuresAreMissed
  <2>1. SUFFICES ASSUME OutboxIInv, NEW w \in Webhooks, NEW n \in DOMAIN changes
                 PROVE  /\ /\ n \in answered /\ Asked(w, n) /\ since[w] < n
                           /\ w \notin removed /\ ~GivenUp(w, n)
                           => Heard(w, n) \/ OnItsWay(w, n)
                        /\ Heard(w, n) \/ OnItsWay(w, n) \/ GivenUp(w, n) => Asked(w, n)
                        /\ Times(w, n) <= 1 + faults
    BY DEF OnlyFailuresAreMissed, OutboxIInv, Afforded
  <2>2. n \in 1..Len(changes) /\ faults \in Nat /\ Times(w, n) \in Nat
    BY LenProperties, TimesAre, <2>1 DEF OutboxIInv, OutboxTypes
  <2>3. Known(w, n) <=> Heard(w, n) \/ OnItsWay(w, n) \/ GivenUp(w, n)
    BY DEF Known, Heard, OnItsWay, GivenUp
  <2>4. /\ n \in answered /\ Asked(w, n) /\ since[w] < n /\ w \notin removed => Known(w, n)
        /\ Known(w, n) => Asked(w, n)
    BY <2>1, <2>2 DEF OutboxIInv, Told, Settled
  <2>5. Times(w, n) <= 1 + faults
    BY <2>1, <2>2 DEF OutboxIInv, Counted
  <2>6. QED
    BY <2>3, <2>4, <2>5
<1>2. QED
  BY <1>1, OutboxInvariance, PTL

LEMMA LastIs ==
  ASSUME HasLast, changes \in Seq(Change), NEW kinds \in SUBSET (Events \cup Silent)
  PROVE  /\ LastOf(kinds) \in Nat
         /\ \A m \in 1..Len(changes) : changes[m].event \in kinds => m <= LastOf(kinds)
         /\ LastOf(kinds) > 0 => /\ LastOf(kinds) \in 1..Len(changes)
                                 /\ changes[LastOf(kinds)].event \in kinds
<1> DEFINE those == {n \in DOMAIN changes : changes[n].event \in kinds}
<1>1. DOMAIN changes = 1..Len(changes)
  BY LenProperties
<1>2. CASE those = {}
  <2>1. LastOf(kinds) = 0
    BY <1>2 DEF LastOf
  <2>2. \A m \in 1..Len(changes) : changes[m].event \notin kinds
    BY <1>1, <1>2
  <2>3. QED
    BY <2>1, <2>2
<1>3. CASE those # {}
  <2>1. \E n \in those : \A m \in those : m <= n
    BY <1>1, <1>3 DEF HasLast
  <2>2. LastOf(kinds) = CHOOSE n \in those : \A m \in those : m <= n
    BY <1>3 DEF LastOf
  <2>3. LastOf(kinds) \in those /\ \A m \in those : m <= LastOf(kinds)
    BY <2>1, <2>2
  <2>4. QED
    BY <1>1, <2>3
<1>4. QED
  BY <1>2, <1>3

\* A webhook subscribed to the status events from the start knows the status by
\* the last one, as long as nothing overlapped or failed and the ticket was not
\* reopened or merged since, of which no event tells: with one request and one
\* delivery at a time, order is kept from the commit to the subscriber.
THEOREM LastWordHolds == OutboxSpec => []LastWordIsTheStatus
<1>1. OutboxIInv => LastWordIsTheStatus
  <2>1. SUFFICES ASSUME OutboxIInv, ~raced, faults = 0, Jobs = {},
                        answered = DOMAIN changes, NEW w \in Webhooks,
                        StatusEvents = Wants[w], since[w] = 0, w \notin removed,
                        LastOf(StatusEvents) > 0
                 PROVE  /\ arrived[w][Len(arrived[w])] = LastOf(StatusEvents)
                        /\ LastOf(StatusEvents) > LastOf(Silent) =>
                             changes[arrived[w][Len(arrived[w])]].to = status
    BY DEF LastWordIsTheStatus
  <2>2. PICK n : n = LastOf(StatusEvents)
    OBVIOUS
  <2>3. /\ changes \in Seq(Change) /\ DOMAIN changes = 1..Len(changes)
        /\ Len(changes) \in Nat
    BY <2>1, LenProperties DEF OutboxIInv, OutboxTypes
  <2>4. StatusEvents \in SUBSET (Events \cup Silent) /\ Silent \in SUBSET (Events \cup Silent)
    BY DEF StatusEvents, Events
  <2>5. /\ n \in 1..Len(changes) /\ changes[n].event \in StatusEvents
        /\ \A m \in 1..Len(changes) : changes[m].event \in StatusEvents => m <= n
    BY <2>1, <2>2, <2>3, <2>4, LastIs DEF OutboxIInv
  <2>6. Asked(w, n) /\ n \in answered /\ since[w] < n
    BY <2>1, <2>3, <2>5, OutboxAssumption DEF Asked
  <2>7. n \in Range(arrived[w])
    BY <2>1, <2>5, <2>6 DEF OutboxIInv, Told, Settled, Known, Ordered
  <2>8. /\ arrived[w] \in Seq(Nat) /\ Len(arrived[w]) \in Nat
        /\ \A m \in Range(arrived[w]) : m \in 1..Len(changes) /\ m <= n
    <3>1. arrived[w] \in Seq(Nat) /\ Len(arrived[w]) \in Nat
      BY LenProperties, <2>1 DEF OutboxIInv, OutboxTypes
    <3>2. ASSUME NEW m \in Range(arrived[w])
          PROVE  m \in 1..Len(changes) /\ m <= n
      <4>1. m \in 1..Len(changes)
        BY <2>1 DEF OutboxIInv, Placed
      <4>2. Asked(w, m)
        BY <2>1, <4>1 DEF OutboxIInv, Told, Known
      <4>3. QED
        BY <2>1, <2>5, <4>1, <4>2 DEF Asked
    <3>3. QED
      BY <3>1, <3>2
  <2>9. arrived[w][Len(arrived[w])] = n
    <3>1. PICK i \in 1..Len(arrived[w]) : arrived[w][i] = n
      BY <2>7, <2>8, RangeIs
    <3>2. Len(arrived[w]) \in 1..Len(arrived[w])
      BY <2>8, <3>1
    <3>3. arrived[w][Len(arrived[w])] \in Nat /\ arrived[w][Len(arrived[w])] <= n
      BY <2>8, <3>2, RangeIs
    <3>4. i < Len(arrived[w]) => n <= arrived[w][Len(arrived[w])]
      BY <2>1, <3>1, <3>2 DEF OutboxIInv, Ordered, InOrder
    <3>5. QED
      BY <2>5, <2>8, <3>1, <3>3, <3>4
  <2>10. n > LastOf(Silent) => changes[n].to = status
    <3>1. SUFFICES ASSUME n > LastOf(Silent) PROVE changes[n].to = status
      OBVIOUS
    <3>2. PICK last \in Nat :
            /\ n > last
            /\ \A m \in 1..Len(changes) : changes[m].event \in Silent => m <= last
      BY <2>1, <2>3, <2>4, <3>1, LastIs DEF OutboxIInv
    <3>3. ASSUME NEW m \in 1..Len(changes), m > n
          PROVE  changes[m].event = "ticket.escalated"
      <4>1. changes[m].event \in Events \cup Silent
        <5>1. changes[m] \in Change
          BY <2>3, ElementOfSeq
        <5>2. QED
          BY <5>1 DEF Change
      <4>2. changes[m].event \notin Silent
        BY <2>3, <2>5, <3>2, <3>3
      <4>3. changes[m].event \notin StatusEvents
        BY <2>3, <2>5, <3>3
      <4>4. QED
        BY <4>1, <4>2, <4>3 DEF Events, StatusEvents
    <3>4. QED
      BY <2>1, <2>5, <3>3 DEF OutboxIInv, LastSet
  <2>11. QED
    BY <2>2, <2>9, <2>10
<1>2. QED
  BY <1>1, OutboxInvariance, PTL

-----------------------------------------------------------------------------
(* Outbox: why the queue runs dry *)

\* The steps a worker can still take over the jobs there are: a job that waits
\* is to be taken and finished, and each fault left can put one back.
Backlog == 2 * Len(waiting) + Cardinality(active) + 2 * (MaxFaults - faults)

InHand == IsFiniteSet(active) /\ faults \in 0..MaxFaults

\* Of Take and Deliver, which the worker goes on with, one is to be had.
WorkToDo ==
  \/ waiting # <<>> /\ Cardinality(active) < Concurrency
  \/ active # {}

Queues == \E r \in Requests, w \in Webhooks : AddJob(r, w)

LEMMA BacklogIsNat ==
  ASSUME MaxFaults \in Nat, OutboxTypes, InHand
  PROVE  /\ Backlog \in Nat /\ Len(waiting) \in Nat /\ Cardinality(active) \in Nat
         /\ MaxFaults - faults \in Nat
<1>1. Len(waiting) \in Nat
  BY LenProperties DEF OutboxTypes
<1>2. Cardinality(active) \in Nat
  BY FS_CardinalityType DEF InHand
<1>3. MaxFaults - faults \in Nat
  BY DEF InHand
<1> QED
  BY <1>1, <1>2, <1>3 DEF Backlog

LEMMA BacklogTaken ==
  ASSUME MaxFaults \in Nat, OutboxTypes, InHand, Take
  PROVE  InHand' /\ Backlog' \in Int /\ Backlog' < Backlog
<1>1. /\ active' = active \cup {Head(waiting)} /\ faults' = faults
      /\ Len(waiting') = Len(waiting) - 1
  BY TakeIs
<1>2. /\ IsFiniteSet(active')
      /\ Cardinality(active') \in {Cardinality(active), Cardinality(active) + 1}
  BY <1>1, FS_AddElement DEF InHand
<1> QED
  BY <1>1, <1>2, BacklogIsNat DEF InHand, Backlog

LEMMA BacklogWorked ==
  ASSUME MaxFaults \in Nat, OutboxTypes, InHand,
         NEW job \in active, Deliver(job) \/ Stall(job)
  PROVE  InHand' /\ Backlog' \in Int /\ Backlog' < Backlog
<1>1. /\ active' = active \ {job}
      /\ \/ waiting' = waiting /\ faults' = faults
         \/ waiting' = waiting /\ faults < MaxFaults /\ faults' = faults + 1
         \/ /\ Len(waiting') = Len(waiting) + 1
            /\ faults < MaxFaults /\ faults' = faults + 1
  <2>1. CASE Deliver(job)
    BY <2>1 DEF Deliver
  <2>2. CASE Stall(job)
    <3>1. faults < MaxFaults
      BY <2>2 DEF Stall
    <3>2. \A again \in Job : Len(Append(waiting, again)) = Len(waiting) + 1
      BY Lengthened DEF OutboxTypes
    <3> QED
      BY <2>2, <3>1, <3>2, StallIs
  <2> QED
    BY <2>1, <2>2
<1>2. /\ IsFiniteSet(active')
      /\ Cardinality(active') = Cardinality(active) - 1
  BY <1>1, FS_RemoveElement DEF InHand
<1>3. PICK n \in Nat, c \in Nat, f \in Nat :
        n = Len(waiting) /\ c = Cardinality(active) /\ f = MaxFaults - faults
  BY BacklogIsNat
<1>4. \/ Len(waiting') = n /\ MaxFaults - faults' = f
      \/ Len(waiting') \in {n, n + 1} /\ MaxFaults - faults' = f - 1
  BY <1>1, <1>3 DEF InHand
<1>5. InHand'
  BY <1>1, <1>2 DEF InHand
<1>6. Backlog = 2 * n + c + 2 * f
  BY <1>3 DEF Backlog
<1>7. Backlog' = 2 * Len(waiting') + (c - 1) + 2 * (MaxFaults - faults')
  BY <1>2, <1>3 DEF Backlog
<1> QED
  BY <1>4, <1>5, <1>6, <1>7

\* What is neither the worker's doing nor a job queued leaves the queue alone.
LEMMA BacklogElsewhere ==
  ASSUME MaxFaults \in Nat, OutboxTypes, InHand,
         [OutboxNext]_outboxVars, ~Work, ~Queues
  PROVE  InHand' /\ Backlog' \in Int /\ Backlog' <= Backlog
<1> DEFINE Still ==
             /\ waiting' = waiting /\ active' = active
             /\ \/ faults' = faults
                \/ faults < MaxFaults /\ faults' = faults + 1
<1>1. Still
  <2> USE DEF queue
  <2>1. ASSUME NEW r \in Requests, Handle(r)
        PROVE  Still
    BY <2>1 DEF Handle, Queues, Commit, Find, Answer, Break
  <2>2. ASSUME NEW w \in Webhooks, Subscribe(w) \/ Remove(w)
        PROVE  Still
    BY <2>2 DEF Subscribe, Remove
  <2>3. CASE UNCHANGED outboxVars
    BY <2>3 DEF outboxVars
  <2> QED
    BY <2>1, <2>2, <2>3 DEF OutboxNext
<1>2. InHand'
  BY <1>1 DEF InHand
<1>3. MaxFaults - faults' \in Int /\ MaxFaults - faults' <= MaxFaults - faults
  BY <1>1 DEF InHand
<1>4. Backlog' = 2 * Len(waiting) + Cardinality(active) + 2 * (MaxFaults - faults')
  BY <1>1 DEF Backlog
<1> HIDE DEF Still
<1> QED
  BY <1>2, <1>3, <1>4, BacklogIsNat DEF Backlog

LEMMA BacklogQueued ==
  ASSUME MaxFaults \in Nat, OutboxTypes, InHand, Queues
  PROVE  InHand' /\ Backlog' = Backlog + 2
<1>1. /\ active' = active /\ faults' = faults
      /\ \E job \in Job : waiting' = Append(waiting, job)
  BY AddJobIs DEF Queues, queue
<1>2. Len(waiting') = Len(waiting) + 1
  BY <1>1, Lengthened DEF OutboxTypes
<1>3. InHand'
  BY <1>1 DEF InHand
<1> QED
  BY <1>1, <1>2, <1>3, BacklogIsNat DEF InHand, Backlog

LEMMA BacklogStep ==
  ASSUME MaxFaults \in Nat, OutboxTypes, InHand, [OutboxNext]_outboxVars
  PROVE  /\ InHand'
         /\ Work => Backlog' < Backlog
         /\ Backlog' > Backlog => Queues
<1>1. CASE Work
  <2>1. InHand' /\ Backlog' \in Int /\ Backlog' < Backlog
    BY <1>1, BacklogTaken, BacklogWorked DEF Work
  <2>2. Backlog \in Int
    BY BacklogIsNat
  <2> QED
    BY <2>1, <2>2
<1>2. CASE ~Work /\ Queues
  BY <1>2, BacklogQueued
<1>3. CASE ~Work /\ ~Queues
  <2>1. InHand' /\ Backlog' \in Int /\ Backlog' <= Backlog
    BY <1>3, BacklogElsewhere
  <2>2. Backlog \in Int
    BY BacklogIsNat
  <2> QED
    BY <1>3, <2>1, <2>2
<1> QED
  BY <1>1, <1>2, <1>3

LEMMA WorkIsThere ==
  ASSUME Concurrency \in Nat \ {0}, OutboxTypes, InHand, Jobs # {}
  PROVE  WorkToDo
<1> SUFFICES ASSUME active = {} PROVE WorkToDo
  BY DEF WorkToDo
<1>1. waiting # <<>>
  BY EmptySeq DEF Jobs
<1>2. Cardinality(active) = 0
  BY FS_EmptySet
<1> QED
  BY <1>1, <1>2 DEF WorkToDo

\* The safety half of QueuesDrain: as long as there is a job, a worker has one
\* to take or to finish; whatever a worker does, deliver, fail or die over a
\* job, brings the backlog down; and only a request that queues a job brings it
\* up again. What is left to the workers' fairness is that they go on
\* (webhooks.service.ts:53-72, webhook-delivery.processor.ts).
THEOREM WorkCounts ==
  ASSUME MaxFaults \in Nat, Concurrency \in Nat \ {0}
  PROVE  OutboxSpec =>
           /\ [](Backlog \in Nat /\ (Jobs # {} => WorkToDo))
           /\ [][(Work => Backlog' < Backlog) /\ (Backlog' > Backlog => Queues)]_outboxVars
<1> DEFINE Down == (Work => Backlog' < Backlog) /\ (Backlog' > Backlog => Queues)
<1>1. OutboxInit => InHand
  BY FS_EmptySet DEF OutboxInit, InHand
<1>2. OutboxIInv /\ InHand /\ [OutboxNext]_outboxVars => InHand' /\ [Down]_outboxVars
  BY BacklogStep DEF OutboxIInv
<1>3. OutboxIInv /\ InHand => Backlog \in Nat /\ (Jobs # {} => WorkToDo)
  BY BacklogIsNat, WorkIsThere DEF OutboxIInv
<1> HIDE DEF Down
<1>4. OutboxSpec => [](Backlog \in Nat /\ (Jobs # {} => WorkToDo)) /\ [][Down]_outboxVars
  BY <1>1, <1>2, <1>3, OutboxInvariance, PTL DEF OutboxSpec
<1> QED
  BY <1>4 DEF Down

=============================================================================
