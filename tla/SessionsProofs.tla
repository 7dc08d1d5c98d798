--------------------------- MODULE SessionsProofs ---------------------------
(***************************************************************************)
(* What holds of Sessions for every number of sessions, browsers and       *)
(* requests and every bound of the clock.                                  *)
(*                                                                         *)
(* That a revoked session stays revoked needs only that no row is created  *)
(* twice.  The other properties are about who may hold which token, and    *)
(* are inductive once replies under way are counted among the holders: a   *)
(* session belongs to one browser, whose requests alone rotate it, and a   *)
(* browser with one tab has at most one of them.                           *)
(*                                                                         *)
(* The last section is about suspensions: they take effect at once but for *)
(* a login that is between its check and its insertion.                    *)
(***************************************************************************)
EXTENDS Sessions, TLAPS

Busy == {"store", "account", "rotate", "reuse", "reply"}
Asking == Busy \cup {"issue"}

\* What requests and cookies refer to exists.
Placed ==
  /\ \A h \in Handlers :
       /\ handler[h].pc \in Busy =>
            /\ handler[h].session \in SessionIds
            /\ session[handler[h].session] # NULL
       /\ handler[h].pc \in Asking => handler[h].browser \in Browsers
       /\ handler[h].pc \notin Asking => handler[h].browser = NULL
  /\ \A b \in Browsers : jar[b] # NULL => session[jar[b].session] # NULL

\* A session belongs to one browser: the cookies that name it and the
\* requests that serve it are of the same one.
Owned ==
  /\ \A b \in Browsers, h \in Handlers :
       jar[b] # NULL /\ handler[h].pc \in Busy
         /\ jar[b].session = handler[h].session => handler[h].browser = b
  /\ \A g, h \in Handlers :
       handler[g].pc \in Busy /\ handler[h].pc \in Busy
         /\ handler[g].session = handler[h].session =>
           handler[g].browser = handler[h].browser

SingleTab ==
  \A g, h \in Handlers :
    handler[g].browser = handler[h].browser
      /\ handler[g].browser \in Browsers \ Flaky => g = h

\* The token about to be delivered is the one its session expects.
ReplyIsCurrent ==
  \A h \in Handlers :
    handler[h].pc = "reply" /\ handler[h].browser \in Browsers \ Flaky =>
      session[handler[h].session].hash = handler[h].iat

\* A cookie is current, or its replacement is on the way.
CookieIsKept ==
  \A b \in Browsers \ Flaky : jar[b] # NULL =>
    \/ session[jar[b].session].hash = jar[b].iat
    \/ \E h \in Handlers : /\ handler[h].pc = "reply"
                           /\ handler[h].browser = b
                           /\ handler[h].session = jar[b].session

Holders == /\ Placed /\ OwnSession /\ Owned
           /\ SingleTab /\ ReplyIsCurrent /\ CookieIsKept /\ NoFalseAlarm

IInv == TypeOK /\ Holders

-----------------------------------------------------------------------------
(* Rows *)

LEMMA ClockIsNat == TypeOK => now \in Nat
  BY SessionsAssumption DEF TypeOK

\* Revoking changes nothing but the mark.
LEMMA Revoking ==
  ASSUME TypeOK, NEW S
  PROVE  /\ RevokedAmong(S) \in [SessionIds -> Row \cup {NULL}]
         /\ \A s \in SessionIds :
              /\ session[s] = NULL <=> RevokedAmong(S)[s] = NULL
              /\ session[s] # NULL =>
                   /\ RevokedAmong(S)[s].hash = session[s].hash
                   /\ session[s].revoked => RevokedAmong(S)[s].revoked
<1> SUFFICES ASSUME NEW s \in SessionIds
             PROVE  /\ RevokedAmong(S)[s] \in Row \cup {NULL}
                    /\ session[s] = NULL <=> RevokedAmong(S)[s] = NULL
                    /\ session[s] # NULL =>
                         /\ RevokedAmong(S)[s].hash = session[s].hash
                         /\ session[s].revoked => RevokedAmong(S)[s].revoked
  BY DEF RevokedAmong
<1>1. CASE s \in S /\ session[s] # NULL
  <2>1. session[s] \in Row
    BY <1>1 DEF TypeOK
  <2>2. RevokedAmong(S)[s] = [session[s] EXCEPT !.revoked = TRUE]
    BY <1>1 DEF RevokedAmong
  <2>3. [session[s] EXCEPT !.revoked = TRUE] \in Row
    BY <2>1 DEF Row
  <2> QED
    BY <1>1, <2>1, <2>2, <2>3, NullIsNoValue DEF Row
<1>2. CASE ~(s \in S /\ session[s] # NULL)
  <2>1. RevokedAmong(S)[s] = session[s]
    BY <1>2 DEF RevokedAmong
  <2> QED
    BY <2>1 DEF TypeOK
<1> QED
  BY <1>1, <1>2

LEMMA FreshIsRow ==
  ASSUME TypeOK
  PROVE  Fresh \in Row /\ Fresh # NULL
<1>1. now + Ttl \in Nat
  BY ClockIsNat, SessionsAssumption
<1>2. Fresh \in Row
  BY <1>1 DEF Fresh, Row
<1> QED
  BY <1>2, NullIsNoValue

LEMMA RotatedIsRow ==
  ASSUME TypeOK, NEW row \in Row
  PROVE  /\ Rotated(row) \in Row /\ Rotated(row) # NULL
         /\ Rotated(row).hash = now /\ Rotated(row).revoked = row.revoked
<1>1. now \in Nat /\ now + Ttl \in Nat
  BY ClockIsNat, SessionsAssumption
<1>2. Rotated(row) \in Row
  BY <1>1 DEF Rotated, Row
<1> QED
  BY <1>1, <1>2, NullIsNoValue DEF Rotated, Row

LEMMA AtIsHandler ==
  \A pc \in Steps : /\ At(pc) \in Handler /\ At(pc).pc = pc
                    /\ At(pc).browser = NULL /\ At(pc).session = NULL
  BY DEF At, Handler

-----------------------------------------------------------------------------
(* Steps that leave the holders alone *)

\* The rows that exist keep their hashes.
Untouched ==
  \A s \in SessionIds : session[s] # NULL =>
    session'[s] # NULL /\ session'[s].hash = session[s].hash

LEMMA RevokingUntouched ==
  ASSUME TypeOK, NEW S, session' = RevokedAmong(S)
  PROVE  Untouched
  BY Revoking DEF Untouched

\* Nobody moves.
LEMMA Still ==
  ASSUME TypeOK, Holders, Untouched, UNCHANGED <<jar, handler>>
  PROVE  Holders'
<1>1. \A b \in Browsers : jar[b] # NULL => jar[b].session \in SessionIds
  BY DEF TypeOK, Token
<1>2. Placed' /\ OwnSession' /\ Owned' /\ SingleTab' /\ NoFalseAlarm'
  BY <1>1 DEF Holders, Placed, OwnSession, Owned, SingleTab, NoFalseAlarm,
              Untouched
<1>3. ReplyIsCurrent' /\ CookieIsKept'
  BY <1>1 DEF Holders, Placed, ReplyIsCurrent, CookieIsKept, Untouched, Busy
<1> QED
  BY <1>2, <1>3 DEF Holders

\* A request ends, or goes on without a browser; no delivery is given up that
\* a single tab waits for.
LEMMA Retreat ==
  ASSUME TypeOK, Holders, Untouched, UNCHANGED jar,
         NEW h \in Handlers, NEW q \in Handler,
         handler' = [handler EXCEPT ![h] = q],
         q.pc \notin Asking, q.browser = NULL,
         handler[h].pc # "reply" \/ handler[h].browser \in Flaky
  PROVE  Holders'
<1>1. \A b \in Browsers : jar[b] # NULL => jar[b].session \in SessionIds
  BY DEF TypeOK, Token
<1>2. /\ \A g \in Handlers \ {h} : handler'[g] = handler[g]
      /\ handler'[h] = q
  BY DEF TypeOK
<1>3. NULL \notin Browsers
  BY SessionsAssumption
<1>4. Placed'
  BY <1>1, <1>2 DEF Holders, Placed, Untouched, Asking
<1>5. OwnSession' /\ Owned' /\ SingleTab'
  BY <1>2, <1>3 DEF Holders, OwnSession, Owned, SingleTab, Asking
<1>6. ReplyIsCurrent' /\ NoFalseAlarm'
  BY <1>2, <1>3
  DEF Holders, Placed, ReplyIsCurrent, NoFalseAlarm, Untouched, Busy, Asking
<1>7. CookieIsKept'
  BY <1>1, <1>2 DEF Holders, Placed, CookieIsKept, Untouched
<1> QED
  BY <1>4, <1>5, <1>6, <1>7 DEF Holders

-----------------------------------------------------------------------------
(* Steps of a request that has a browser *)

LEMMA LoginHolds ==
  ASSUME TypeOK, Holders, NEW h \in Handlers, NEW b \in Browsers, Login(h, b)
  PROVE  Holders'
<1> DEFINE q == [At("issue") EXCEPT !.browser = b]
<1>1. /\ handler' = [handler EXCEPT ![h] = q]
      /\ q.pc = "issue" /\ q.browser = b
      /\ handler[h].pc = "idle"
      /\ b \in Flaky \/ \A g \in Handlers : handler[g].browser # b
      /\ UNCHANGED <<session, jar>>
  BY DEF Login, Goto, Free, At, MayAsk, InFlight
<1> HIDE DEF q
<1>2. /\ \A g \in Handlers \ {h} : handler'[g] = handler[g]
      /\ handler'[h] = q
  BY <1>1 DEF TypeOK
<1>3. Placed' /\ OwnSession' /\ Owned'
  BY <1>1, <1>2 DEF Holders, Placed, OwnSession, Owned, Asking, Busy
<1>4. SingleTab' /\ ReplyIsCurrent' /\ NoFalseAlarm'
  BY <1>1, <1>2
  DEF Holders, SingleTab, ReplyIsCurrent, NoFalseAlarm
<1>5. CookieIsKept'
  BY <1>1, <1>2 DEF Holders, CookieIsKept
<1> QED
  BY <1>3, <1>4, <1>5 DEF Holders

\* A refresh serves the cookie's session for the cookie's browser.
LEMMA RefreshHolds ==
  ASSUME TypeOK, Holders, NEW h \in Handlers, NEW b \in Browsers,
         Refresh(h, b)
  PROVE  Holders'
<1>1. PICK q \in Handler :
        /\ handler' = [handler EXCEPT ![h] = q]
        /\ \/ q = At("done")
           \/ /\ q.pc \in {"account", "reuse"}
              /\ q.browser = b /\ q.session = jar[b].session
              /\ q.pc = "reuse" => session[jar[b].session].hash # jar[b].iat
  <2>1. jar[b].session \in SessionIds
    BY DEF Refresh, TypeOK, Token
  <2> DEFINE r == [At("account") EXCEPT !.browser = b,
                                        !.session = jar[b].session]
  <2>2. /\ r \in Handler /\ [r EXCEPT !.pc = "reuse"] \in Handler
        /\ r.pc = "account" /\ r.browser = b /\ r.session = jar[b].session
        /\ [r EXCEPT !.pc = "reuse"].pc = "reuse"
        /\ [r EXCEPT !.pc = "reuse"].browser = b
        /\ [r EXCEPT !.pc = "reuse"].session = jar[b].session
    BY <2>1 DEF At, Handler, Steps
  <2>3. At("done") \in Handler
    BY AtIsHandler DEF Steps
  <2> HIDE DEF r
  <2>4. /\ handler' = [handler EXCEPT ![h] =
             IF ~Live(jar[b].session) THEN At("done")
             ELSE IF session[jar[b].session].hash # jar[b].iat
             THEN [r EXCEPT !.pc = "reuse"] ELSE r]
    BY DEF Refresh, Goto, r
  <2> QED
    BY <2>2, <2>3, <2>4
<1>2. /\ handler[h].pc = "idle" /\ jar[b] # NULL
      /\ b \in Flaky \/ \A g \in Handlers : handler[g].browser # b
      /\ UNCHANGED <<session, jar>>
  BY DEF Refresh, Free, MayAsk, InFlight
<1>3. CASE q = At("done")
  <2>1. q.pc = "done" /\ q.browser = NULL
    BY <1>3, AtIsHandler DEF Steps
  <2>2. Untouched
    BY <1>2 DEF Untouched
  <2> QED
    BY <1>1, <1>2, <2>1, <2>2, Retreat DEF Asking, Busy
<1>4. CASE q # At("done")
  <2>1. /\ q.pc \in {"account", "reuse"}
        /\ q.browser = b /\ q.session = jar[b].session
        /\ q.pc = "reuse" => session[jar[b].session].hash # jar[b].iat
    BY <1>1, <1>4
  <2>2. /\ \A g \in Handlers \ {h} : handler'[g] = handler[g]
        /\ handler'[h] = q
    BY <1>1 DEF TypeOK
  <2>3. jar[b].session \in SessionIds
    BY <1>2 DEF TypeOK, Token
  <2>4. Placed'
    BY <1>2, <2>1, <2>2, <2>3 DEF Holders, Placed, Asking, Busy
  <2>5. OwnSession' /\ Owned'
    BY <1>2, <2>1, <2>2 DEF Holders, OwnSession, Owned
  <2>6. SingleTab' /\ ReplyIsCurrent' /\ CookieIsKept'
    BY <1>2, <2>1, <2>2 DEF Holders, SingleTab, ReplyIsCurrent, CookieIsKept
  <2>7. b \notin Flaky => session[jar[b].session].hash = jar[b].iat
    BY <1>2 DEF Holders, CookieIsKept
  <2>8. NoFalseAlarm'
    BY <2>1, <2>2, <2>7 DEF Holders, NoFalseAlarm
  <2> QED
    BY <2>4, <2>5, <2>6, <2>8 DEF Holders
<1> QED
  BY <1>3, <1>4

LEMMA CheckAccountHolds ==
  ASSUME TypeOK, Holders, NEW h \in Handlers, CheckAccount(h)
  PROVE  Holders'
<1>1. handler[h].pc = "account" /\ UNCHANGED <<session, jar>>
  BY DEF CheckAccount
<1>2. CASE status = "SUSPENDED"
  <2>1. /\ handler' = [handler EXCEPT ![h] = At("done")]
        /\ At("done") \in Handler
        /\ At("done").pc = "done" /\ At("done").browser = NULL
    BY <1>2, AtIsHandler DEF CheckAccount, Goto, Steps
  <2>2. Untouched
    BY <1>1 DEF Untouched
  <2> QED
    BY <1>1, <2>1, <2>2, Retreat DEF Asking, Busy
<1>3. CASE status # "SUSPENDED"
  <2>1. /\ \A g \in Handlers \ {h} : handler'[g] = handler[g]
        /\ handler'[h].pc = "rotate"
        /\ handler'[h].browser = handler[h].browser
        /\ handler'[h].session = handler[h].session
    BY <1>3 DEF CheckAccount, Goto, TypeOK, Handler
  <2>2. Placed' /\ OwnSession' /\ Owned'
    BY <1>1, <2>1 DEF Holders, Placed, OwnSession, Owned, Asking, Busy
  <2>3. SingleTab' /\ ReplyIsCurrent' /\ NoFalseAlarm'
    BY <1>1, <2>1 DEF Holders, SingleTab, ReplyIsCurrent, NoFalseAlarm
  <2>4. CookieIsKept'
    BY <1>1, <2>1 DEF Holders, CookieIsKept
  <2> QED
    BY <2>2, <2>3, <2>4 DEF Holders
<1> QED
  BY <1>2, <1>3

\* A new row cannot be one that a cookie or a request refers to.
LEMMA IssueHolds ==
  ASSUME TypeOK, Holders, NEW h \in Handlers, NEW s \in SessionIds, Issue(h, s)
  PROVE  Holders'
<1>1. /\ handler[h].pc = "issue" /\ session[s] = NULL
      /\ session' = [session EXCEPT ![s] = Fresh]
      /\ handler' = [handler EXCEPT ![h] =
           [handler[h] EXCEPT !.pc = "store", !.session = s]]
      /\ UNCHANGED jar
  BY DEF Issue, Goto
<1>2. /\ \A g \in Handlers \ {h} : handler'[g] = handler[g]
      /\ handler'[h].pc = "store" /\ handler'[h].session = s
      /\ handler'[h].browser = handler[h].browser
  BY <1>1 DEF TypeOK, Handler
<1>3. /\ \A x \in SessionIds \ {s} : session'[x] = session[x]
      /\ session'[s] # NULL
  BY <1>1, FreshIsRow DEF TypeOK
<1>4. \A b \in Browsers : jar[b] # NULL =>
        jar[b].session \in SessionIds /\ jar[b].session # s
  BY <1>1 DEF Holders, Placed, TypeOK, Token
<1>5. \A g \in Handlers : handler[g].pc \in Busy =>
        handler[g].session \in SessionIds /\ handler[g].session # s
  BY <1>1 DEF Holders, Placed
<1>6. Placed'
  BY <1>1, <1>2, <1>3, <1>4, <1>5 DEF Holders, Placed, Asking, Busy
<1>7. OwnSession' /\ Owned'
  BY <1>1, <1>2, <1>4, <1>5 DEF Holders, OwnSession, Owned
<1>8. SingleTab' /\ NoFalseAlarm'
  BY <1>1, <1>2 DEF Holders, SingleTab, NoFalseAlarm
<1>9. ReplyIsCurrent' /\ CookieIsKept'
  BY <1>1, <1>2, <1>3, <1>4, <1>5
  DEF Holders, ReplyIsCurrent, CookieIsKept, Busy
<1> QED
  BY <1>6, <1>7, <1>8, <1>9 DEF Holders

\* A token is signed and its hash stored: the only steps that change a hash.
LEMMA MintHolds ==
  ASSUME TypeOK, Holders, NEW h \in Handlers,
         handler[h].pc \in {"store", "rotate"},
         NEW row, row # NULL, row.hash = now,
         session' = [session EXCEPT ![handler[h].session] = row],
         handler' = [handler EXCEPT ![h] =
           [handler[h] EXCEPT !.pc = "reply", !.iat = now]],
         UNCHANGED jar
  PROVE  Holders'
<1> DEFINE s == handler[h].session
           b == handler[h].browser
<1>1. s \in SessionIds /\ session[s] # NULL /\ b \in Browsers
  BY DEF Holders, Placed, Asking, Busy
<1>2. /\ \A g \in Handlers \ {h} : handler'[g] = handler[g]
      /\ handler'[h].pc = "reply" /\ handler'[h].session = s
      /\ handler'[h].browser = b /\ handler'[h].iat = now
  BY DEF TypeOK, Handler
<1>3. /\ \A x \in SessionIds \ {s} : session'[x] = session[x]
      /\ session'[s] = row
  BY <1>1 DEF TypeOK
<1>4. \A c \in Browsers : jar[c] # NULL =>
        /\ jar[c].session \in SessionIds
        /\ jar[c].session = s => c = b
  BY DEF Holders, Owned, TypeOK, Token, Busy
<1>5. \A g \in Handlers : handler[g].pc \in Busy =>
        /\ handler[g].session \in SessionIds
        /\ handler[g].session = s => handler[g].browser = b
  BY DEF Holders, Placed, Owned, Busy
<1> HIDE DEF s, b
<1>6. Placed'
  BY <1>1, <1>2, <1>3, <1>4, <1>5 DEF Holders, Placed, Asking, Busy, b
<1>7. OwnSession' /\ Owned'
  BY <1>2, <1>4, <1>5 DEF Holders, OwnSession, Owned, Busy
<1>8. SingleTab' /\ NoFalseAlarm'
  BY <1>2 DEF Holders, SingleTab, NoFalseAlarm, b
<1>9. ReplyIsCurrent'
  <2> SUFFICES ASSUME NEW g \in Handlers, g # h, handler[g].pc = "reply",
                      handler[g].browser \in Browsers \ Flaky
               PROVE  session'[handler[g].session].hash = handler[g].iat
    BY <1>2, <1>3 DEF ReplyIsCurrent
  <2>1. handler[g].session # s
    BY <1>5 DEF Holders, SingleTab, Busy, b
  <2> QED
    BY <1>3, <1>5, <2>1 DEF Holders, ReplyIsCurrent, Busy
<1>10. CookieIsKept'
  <2> SUFFICES ASSUME NEW c \in Browsers \ Flaky, jar[c] # NULL,
                      jar[c].session # s
               PROVE  \/ session'[jar[c].session].hash = jar[c].iat
                      \/ \E g \in Handlers :
                           /\ handler'[g].pc = "reply"
                           /\ handler'[g].browser = c
                           /\ handler'[g].session = jar[c].session
    BY <1>2, <1>4 DEF CookieIsKept
  <2> QED
    BY <1>2, <1>3, <1>4 DEF Holders, CookieIsKept
<1> QED
  BY <1>6, <1>7, <1>8, <1>9, <1>10 DEF Holders

\* The cookie is replaced by the token the request was given.
LEMMA ReplyHolds ==
  ASSUME TypeOK, Holders, NEW h \in Handlers, Reply(h)
  PROVE  Holders'
<1> DEFINE b == handler[h].browser
<1>1. /\ handler[h].pc = "reply"
      /\ jar' = [jar EXCEPT ![b] = [session |-> handler[h].session,
                                    iat |-> handler[h].iat]]
      /\ handler' = [handler EXCEPT ![h] = At("done")]
      /\ UNCHANGED session
  BY DEF Reply, End, Goto
<1>2. /\ b \in Browsers /\ handler[h].session \in SessionIds
      /\ session[handler[h].session] # NULL
  BY <1>1 DEF Holders, Placed, Asking, Busy
<1>3. /\ \A g \in Handlers \ {h} : handler'[g] = handler[g]
      /\ handler'[h].pc = "done" /\ handler'[h].browser = NULL
  BY <1>1, AtIsHandler DEF TypeOK, Steps
<1>4. /\ \A c \in Browsers \ {b} : jar'[c] = jar[c]
      /\ jar'[b] # NULL /\ jar'[b].session = handler[h].session
      /\ jar'[b].iat = handler[h].iat
  <2>1. [session |-> handler[h].session, iat |-> handler[h].iat] \in Token
    BY <1>2 DEF TypeOK, Handler, Token
  <2> QED
    BY <1>1, <1>2, <2>1, NullIsNoValue DEF TypeOK
<1>5. NULL \notin Browsers
  BY SessionsAssumption
<1> HIDE DEF b
<1>6. Placed'
  BY <1>1, <1>2, <1>3, <1>4 DEF Holders, Placed, Asking, Busy
<1>7. OwnSession'
  BY <1>1, <1>4 DEF Holders, OwnSession, Owned, Busy, b
<1>8. Owned'
  BY <1>1, <1>3, <1>4 DEF Holders, Owned, Busy, b
<1>9. SingleTab' /\ NoFalseAlarm' /\ ReplyIsCurrent'
  BY <1>1, <1>3, <1>5 DEF Holders, SingleTab, NoFalseAlarm, ReplyIsCurrent
<1>10. CookieIsKept'
  <2>1. b \notin Flaky => session'[jar'[b].session].hash = jar'[b].iat
    BY <1>1, <1>2, <1>4 DEF Holders, ReplyIsCurrent, b
  <2>2. ASSUME NEW c \in Browsers \ Flaky, c # b, jar[c] # NULL
        PROVE  \/ session[jar[c].session].hash = jar[c].iat
               \/ \E g \in Handlers \ {h} :
                    /\ handler[g].pc = "reply" /\ handler[g].browser = c
                    /\ handler[g].session = jar[c].session
    BY <2>2 DEF Holders, CookieIsKept, b
  <2> QED
    BY <1>1, <1>3, <1>4, <2>1, <2>2 DEF CookieIsKept
<1> QED
  BY <1>6, <1>7, <1>8, <1>9, <1>10 DEF Holders

LEMMA LogoutHolds ==
  ASSUME TypeOK, Holders, NEW b \in Browsers, Logout(b)
  PROVE  Holders'
<1>1. /\ jar' = [jar EXCEPT ![b] = NULL] /\ UNCHANGED handler
      /\ Untouched
  BY RevokingUntouched DEF Logout
<1>2. jar'[b] = NULL /\ \A c \in Browsers \ {b} : jar'[c] = jar[c]
  BY <1>1 DEF TypeOK
<1>3. \A c \in Browsers : jar[c] # NULL => jar[c].session \in SessionIds
  BY DEF TypeOK, Token
<1>4. Placed' /\ OwnSession' /\ Owned' /\ SingleTab' /\ NoFalseAlarm'
  BY <1>1, <1>2, <1>3
  DEF Holders, Placed, OwnSession, Owned, SingleTab, NoFalseAlarm, Untouched
<1>5. ReplyIsCurrent' /\ CookieIsKept'
  BY <1>1, <1>2, <1>3
  DEF Holders, Placed, ReplyIsCurrent, CookieIsKept, Untouched, Busy
<1> QED
  BY <1>4, <1>5 DEF Holders

-----------------------------------------------------------------------------
(* Steps of a request that loses its browser or never had one *)

LEMMA EndHolds ==
  ASSUME TypeOK, Holders, NEW h \in Handlers,
         Lose(h) \/ KillReused(h) \/ Evict(h)
           \/ CommitReset(h) \/ CommitVerify(h)
  PROVE  Holders'
<1>1. /\ handler' = [handler EXCEPT ![h] = At("done")] /\ UNCHANGED jar
      /\ handler[h].pc # "reply" \/ handler[h].browser \in Flaky
  BY DEF Lose, KillReused, Evict, CommitReset, CommitVerify, End, Goto
<1>2. Untouched
  <2>1. UNCHANGED session \/ \E S : session' = RevokedAmong(S)
    BY DEF Lose, KillReused, Evict, CommitReset, CommitVerify
  <2> QED
    BY <2>1, RevokingUntouched DEF Untouched
<1> QED
  BY <1>1, <1>2, AtIsHandler, Retreat DEF Steps, Asking, Busy

LEMMA BeginHolds ==
  ASSUME TypeOK, Holders, NEW h \in Handlers,
         Suspend(h) \/ ResetPassword(h) \/ VerifyEmail(h)
  PROVE  Holders'
<1>1. PICK pc \in {"evict", "reset", "verify"} :
        handler' = [handler EXCEPT ![h] = At(pc)]
  BY DEF Suspend, ResetPassword, VerifyEmail, Goto
<1>2. UNCHANGED <<jar, session>> /\ handler[h].pc = "idle"
  BY DEF Suspend, ResetPassword, VerifyEmail, Free
<1> QED
  BY <1>1, <1>2, AtIsHandler, Retreat DEF Untouched, Steps, Asking, Busy

-----------------------------------------------------------------------------
(* Types *)

LEMMA HandlersType ==
  ASSUME TypeOK, Holders, NEW h \in Handlers, Handle(h)
  PROVE  TypeOK'
<1>1. now \in Nat
  BY ClockIsNat
<1>2. \A pc \in Steps : At(pc) \in Handler
  BY AtIsHandler
<1>3. \A S : RevokedAmong(S) \in [SessionIds -> Row \cup {NULL}]
  BY Revoking
<1>4. ASSUME NEW b \in Browsers, Login(h, b) PROVE TypeOK'
  <2>1. [At("issue") EXCEPT !.browser = b] \in Handler
    BY DEF At, Handler, Steps
  <2> QED
    BY <1>4, <2>1 DEF Login, Goto, TypeOK
<1>5. ASSUME NEW b \in Browsers, Refresh(h, b) PROVE TypeOK'
  <2> DEFINE q == [At("account") EXCEPT !.browser = b,
                                        !.session = jar[b].session]
  <2>1. jar[b].session \in SessionIds
    BY <1>5 DEF Refresh, TypeOK, Token
  <2>2. q \in Handler /\ [q EXCEPT !.pc = "reuse"] \in Handler
    BY <2>1 DEF At, Handler, Steps
  <2>3. At("done") \in Handler
    BY <1>2 DEF Steps
  <2>4. handler' \in [Handlers -> Handler]
    BY <1>5, <2>2, <2>3 DEF Refresh, Goto, TypeOK
  <2> QED
    BY <1>5, <2>4 DEF Refresh, TypeOK
<1>6. ASSUME NEW s \in SessionIds, Issue(h, s) PROVE TypeOK'
  <2>1. [handler[h] EXCEPT !.pc = "store", !.session = s] \in Handler
    BY DEF TypeOK, Handler, Steps
  <2> QED
    BY <1>6, <2>1, FreshIsRow DEF Issue, Goto, TypeOK
<1>7. [handler[h] EXCEPT !.pc = "reply", !.iat = now] \in Handler
  BY <1>1 DEF TypeOK, Handler, Steps
<1>8. CASE Store(h)
  <2>1. handler[h].session \in SessionIds
        /\ session[handler[h].session] \in Row
    BY <1>8 DEF Store, Holders, Placed, Busy, TypeOK
  <2>2. [session[handler[h].session] EXCEPT !.hash = now] \in Row
    BY <1>1, <2>1 DEF Row
  <2> QED
    BY <1>7, <1>8, <2>1, <2>2 DEF Store, Goto, TypeOK
<1>9. CASE Rotate(h)
  <2>1. handler[h].session \in SessionIds
        /\ session[handler[h].session] \in Row
    BY <1>9 DEF Rotate, Holders, Placed, Busy, TypeOK
  <2> QED
    BY <1>7, <1>9, <2>1, RotatedIsRow DEF Rotate, Goto, TypeOK
<1>10. CASE CheckAccount(h)
  <2>1. [handler[h] EXCEPT !.pc = "rotate"] \in Handler
    BY DEF TypeOK, Handler, Steps
  <2>2. At("done") \in Handler
    BY <1>2 DEF Steps
  <2> QED
    BY <1>10, <2>1, <2>2 DEF CheckAccount, Goto, TypeOK
<1>11. CASE Reply(h)
  <2>1. [session |-> handler[h].session, iat |-> handler[h].iat] \in Token
    BY <1>11 DEF Reply, Holders, Placed, Busy, TypeOK, Handler, Token
  <2>2. At("done") \in Handler
    BY <1>2 DEF Steps
  <2> QED
    BY <1>11, <2>1, <2>2 DEF Reply, End, Goto, TypeOK
<1>12. CASE Lose(h) \/ KillReused(h) \/ Evict(h)
              \/ CommitReset(h) \/ CommitVerify(h)
  <2>1. At("done") \in Handler
    BY <1>2 DEF Steps
  <2> QED
    BY <1>3, <1>12, <2>1
    DEF Lose, KillReused, Evict, CommitReset, CommitVerify, End, Goto, TypeOK,
        UserStatus, Link
<1>13. CASE Suspend(h) \/ ResetPassword(h) \/ VerifyEmail(h)
  <2>1. At("evict") \in Handler /\ At("reset") \in Handler
        /\ At("verify") \in Handler
    BY <1>2 DEF Steps
  <2> QED
    BY <1>13, <2>1
    DEF Suspend, ResetPassword, VerifyEmail, Goto, TypeOK, UserStatus
<1> QED
  BY <1>4, <1>5, <1>6, <1>8, <1>9, <1>10, <1>11, <1>12, <1>13 DEF Handle

LEMMA OthersType ==
  ASSUME TypeOK,
         \/ Tick \/ Reactivate \/ ForgotPassword
         \/ \E b \in Browsers :
              \/ Logout(b) \/ LogoutOthers(b)
              \/ \E s \in SessionIds : RevokeSession(b, s)
  PROVE  TypeOK'
<1>1. \A S : RevokedAmong(S) \in [SessionIds -> Row \cup {NULL}]
  BY Revoking
<1>2. CASE Tick
  BY <1>2, SessionsAssumption DEF Tick, TypeOK
<1>3. CASE Reactivate \/ ForgotPassword
  BY <1>3 DEF Reactivate, ForgotPassword, TypeOK, UserStatus, Link
<1>4. ASSUME NEW b \in Browsers, Logout(b) PROVE TypeOK'
  BY <1>1, <1>4 DEF Logout, TypeOK
<1>5. ASSUME NEW b \in Browsers, LogoutOthers(b) PROVE TypeOK'
  BY <1>1, <1>5 DEF LogoutOthers, TypeOK
<1>6. ASSUME NEW b \in Browsers, NEW s \in SessionIds, RevokeSession(b, s)
      PROVE  TypeOK'
  BY <1>1, <1>6 DEF RevokeSession, TypeOK
<1> QED
  BY <1>2, <1>3, <1>4, <1>5, <1>6

-----------------------------------------------------------------------------
(* The theorems *)

LEMMA InitIInv == Init => IInv
<1> SUFFICES ASSUME Init PROVE IInv
  OBVIOUS
<1>1. At("idle") \in Handler /\ At("idle").pc = "idle"
      /\ At("idle").browser = NULL
  BY AtIsHandler DEF Steps
<1>2. TypeOK
  BY <1>1, SessionsAssumption DEF Init, TypeOK, UserStatus, Link
<1>3. Holders
  BY <1>1, SessionsAssumption
  DEF Init, Holders, Placed, OwnSession, Owned, SingleTab, ReplyIsCurrent,
      CookieIsKept, NoFalseAlarm, Busy, Asking
<1> QED
  BY <1>2, <1>3 DEF IInv

LEMMA HandleIInv ==
  ASSUME IInv, NEW h \in Handlers, Handle(h)
  PROVE  IInv'
<1> USE DEF IInv
<1>1. TypeOK'
  BY HandlersType
<1>2. ASSUME NEW b \in Browsers, Login(h, b) \/ Refresh(h, b) PROVE Holders'
  BY <1>2, LoginHolds, RefreshHolds
<1>3. ASSUME NEW s \in SessionIds, Issue(h, s) PROVE Holders'
  BY <1>3, IssueHolds
<1>4. CASE Store(h)
  <2>1. handler[h].session \in SessionIds
        /\ session[handler[h].session] \in Row
    BY <1>4 DEF Store, Holders, Placed, Busy, TypeOK
  <2> DEFINE row == [session[handler[h].session] EXCEPT !.hash = now]
  <2>2. now \in Nat
    BY ClockIsNat
  <2>3. row \in Row /\ row.hash = now
    BY <2>1, <2>2 DEF Row
  <2>4. session' = [session EXCEPT ![handler[h].session] = row]
    BY <1>4, <2>1 DEF Store, TypeOK
  <2>5. row # NULL
    BY <2>3, NullIsNoValue
  <2> HIDE DEF row
  <2> QED
    BY <1>1, <1>4, <2>3, <2>4, <2>5, MintHolds DEF Store, Goto
<1>5. CASE Rotate(h)
  <2>1. handler[h].session \in SessionIds
        /\ session[handler[h].session] \in Row
    BY <1>5 DEF Rotate, Holders, Placed, Busy, TypeOK
  <2>2. session' = [session EXCEPT ![handler[h].session] =
                      Rotated(session[handler[h].session])]
    BY <1>5, <2>1 DEF Rotate, TypeOK
  <2> QED
    BY <1>1, <1>5, <2>1, <2>2, RotatedIsRow, MintHolds DEF Rotate, Goto
<1>6. CASE CheckAccount(h) \/ Reply(h)
  BY <1>1, <1>6, CheckAccountHolds, ReplyHolds
<1>7. CASE Lose(h) \/ KillReused(h) \/ Evict(h)
             \/ CommitReset(h) \/ CommitVerify(h)
  BY <1>1, <1>7, EndHolds
<1>8. CASE Suspend(h) \/ ResetPassword(h) \/ VerifyEmail(h)
  BY <1>1, <1>8, BeginHolds
<1> QED
  BY <1>1, <1>2, <1>3, <1>4, <1>5, <1>6, <1>7, <1>8 DEF Handle

LEMMA NextIInv == IInv /\ [Next]_vars => IInv'
<1> SUFFICES ASSUME IInv, [Next]_vars PROVE IInv'
  OBVIOUS
<1>0. TypeOK /\ Holders
  BY DEF IInv
<1>1. CASE UNCHANGED vars
  <2>1. TypeOK'
    BY <1>0, <1>1 DEF vars, TypeOK
  <2>2. Untouched
    BY <1>1 DEF vars, Untouched
  <2> QED
    BY <1>0, <1>1, <2>1, <2>2, Still DEF vars, IInv
<1>2. ASSUME NEW h \in Handlers, Handle(h) PROVE TypeOK' /\ Holders'
  BY <1>2, HandleIInv DEF IInv
<1>3. CASE Tick \/ Reactivate \/ ForgotPassword
  <2>1. Untouched /\ UNCHANGED <<jar, handler>>
    BY <1>3 DEF Tick, Reactivate, ForgotPassword, Untouched
  <2> QED
    BY <1>0, <1>3, <2>1, Still, OthersType DEF IInv
<1>4. ASSUME NEW b \in Browsers, Logout(b) PROVE TypeOK' /\ Holders'
  BY <1>0, <1>4, LogoutHolds, OthersType DEF IInv
<1>5. ASSUME NEW b \in Browsers,
             LogoutOthers(b) \/ \E s \in SessionIds : RevokeSession(b, s)
      PROVE  TypeOK' /\ Holders'
  <2>1. Untouched /\ UNCHANGED <<jar, handler>>
    BY <1>0, <1>5, RevokingUntouched DEF LogoutOthers, RevokeSession
  <2> QED
    BY <1>0, <1>5, <2>1, Still, OthersType DEF IInv
<1> QED
  BY <1>1, <1>2, <1>3, <1>4, <1>5 DEF Next, IInv

THEOREM Invariance == Spec => []IInv
  BY InitIInv, NextIInv, PTL DEF Spec

\* Tables, cookies and handlers keep their types.
THEOREM TypeCorrect == Spec => []TypeOK
<1>1. IInv => TypeOK
  BY DEF IInv
<1> QED
  BY <1>1, Invariance, PTL

\* Whatever is lost, delayed or repeated, no two browsers come to hold tokens
\* of one session.
THEOREM SessionsAreOwned == Spec => []OwnSession
<1>1. IInv => OwnSession
  BY DEF IInv, Holders
<1> QED
  BY <1>1, Invariance, PTL

\* A browser with one tab and a network that delivers is never taken for a
\* thief, however many others share the account.
THEOREM AlarmIsReal == Spec => []NoFalseAlarm
<1>1. IInv => NoFalseAlarm
  BY DEF IInv, Holders
<1> QED
  BY <1>1, Invariance, PTL

\* Its cookie is the one the session expects whenever it is not asking.
THEOREM CookieStaysCurrent == Spec => []CookieIsCurrent
<1>1. IInv => CookieIsCurrent
  BY DEF IInv, Holders, CookieIsKept, CookieIsCurrent, InFlight
<1> QED
  BY <1>1, Invariance, PTL

\* What one step may do to a row: never revive it, never remove it.
LEMMA StepKeepsRevoked ==
  ASSUME IInv, [Next]_vars, NEW s \in SessionIds, session[s] # NULL
  PROVE  session'[s] # NULL /\ (session[s].revoked => session'[s].revoked)
<1>0. TypeOK /\ Placed
  BY DEF IInv, Holders
<1>1. CASE UNCHANGED session
  BY <1>1
<1>2. ASSUME NEW S, session' = RevokedAmong(S)
      PROVE  session'[s] # NULL /\ (session[s].revoked => session'[s].revoked)
  BY <1>0, <1>2, Revoking
<1>3. ASSUME NEW h \in Handlers, NEW x \in SessionIds, Issue(h, x)
      PROVE  session'[s] # NULL /\ (session[s].revoked => session'[s].revoked)
  BY <1>0, <1>3 DEF Issue, TypeOK
<1>4. ASSUME NEW h \in Handlers, Store(h) \/ Rotate(h)
      PROVE  session'[s] # NULL /\ (session[s].revoked => session'[s].revoked)
  <2> DEFINE x == handler[h].session
  <2>1. x \in SessionIds /\ session[x] \in Row
    BY <1>0, <1>4 DEF Store, Rotate, Placed, Busy, TypeOK
  <2>2. PICK row \in Row : /\ session' = [session EXCEPT ![x] = row]
                           /\ row.revoked = session[x].revoked
    <3>1. [session[x] EXCEPT !.hash = now] \in Row
          /\ [session[x] EXCEPT !.hash = now].revoked = session[x].revoked
      BY <1>0, <2>1, ClockIsNat DEF Row
    <3>2. CASE Store(h)
      BY <1>0, <2>1, <3>1, <3>2 DEF Store, TypeOK
    <3>3. CASE Rotate(h)
      BY <1>0, <2>1, <3>3, RotatedIsRow DEF Rotate, TypeOK
    <3> QED
      BY <1>4, <3>2, <3>3
  <2> QED
    BY <1>0, <2>1, <2>2, NullIsNoValue DEF TypeOK
<1> QED
  BY <1>1, <1>2, <1>3, <1>4
  DEF Next, Handle, vars, Tick, Reactivate, ForgotPassword, Login, Refresh,
      KillReused, CheckAccount, Reply, Lose, Logout, RevokeSession,
      LogoutOthers, Suspend, Evict, ResetPassword, CommitReset, VerifyEmail,
      CommitVerify

\* No rotation, login or anything else brings a revoked session back.
THEOREM RevokedStaysRevoked == Spec => RevokedForGood
<1>1. IInv /\ [Next]_vars =>
        [\A s \in SessionIds : session[s] # NULL =>
           /\ session'[s] # NULL
           /\ session[s].revoked => session'[s].revoked]_vars
  BY StepKeepsRevoked
<1> QED
  BY <1>1, Invariance, PTL DEF Spec, RevokedForGood

-----------------------------------------------------------------------------
(* What it takes for a suspension to be effective *)

\* No login whose password has been checked is still to insert its session.
NoLoginPending ==
  status = "SUSPENDED" => \A h \in Handlers : handler[h].pc # "issue"

\* The requests of the account are handled one at a time.
OneAtATime ==
  \A g, h \in Handlers :
    handler[g].pc \notin {"idle", "done"} /\ handler[h].pc \notin {"idle", "done"}
      => g = h

\* The sessions of a suspended account are revoked, or about to be.
Evicted ==
  status = "SUSPENDED" =>
    \/ \E h \in Handlers : handler[h].pc = "evict"
    \/ \A s \in SessionIds : session[s] # NULL => session[s].revoked

\* A request that is about to revoke the sessions does nothing else.
LEMMA EvictGoesOn ==
  ASSUME TypeOK, [Next]_vars, NEW h \in Handlers, handler[h].pc = "evict"
  PROVE  handler'[h].pc = "evict" \/ session' = RevokedAmong(SessionIds)
<1>1. ASSUME NEW g \in Handlers, g # h, Handle(g)
      PROVE  handler'[h] = handler[h]
  BY <1>1
  DEF Handle, Login, Refresh, Issue, Store, KillReused, CheckAccount, Rotate,
      Reply, Lose, Suspend, Evict, ResetPassword, CommitReset, VerifyEmail,
      CommitVerify, Goto, End, TypeOK
<1>2. ASSUME Handle(h) PROVE session' = RevokedAmong(SessionIds)
  BY <1>2
  DEF Handle, Login, Refresh, Issue, Store, KillReused, CheckAccount, Rotate,
      Reply, Lose, Suspend, Evict, ResetPassword, CommitReset, VerifyEmail,
      CommitVerify, Free
<1>3. CASE \/ Tick \/ Reactivate \/ ForgotPassword \/ UNCHANGED vars
           \/ \E b \in Browsers : \/ Logout(b) \/ LogoutOthers(b)
                                  \/ \E s \in SessionIds : RevokeSession(b, s)
  BY <1>3 DEF Tick, Reactivate, ForgotPassword, vars, Logout, LogoutOthers,
              RevokeSession
<1> QED
  BY <1>1, <1>2, <1>3 DEF Next

\* Only a login inserts a session.
LEMMA OnlyIssueInserts ==
  ASSUME IInv, [Next]_vars, NEW s \in SessionIds,
         session[s] = NULL, session'[s] # NULL
  PROVE  \E h \in Handlers : handler[h].pc = "issue"
<1>0. TypeOK /\ Placed
  BY DEF IInv, Holders
<1>1. ASSUME NEW S PROVE session' # RevokedAmong(S)
  BY <1>0, Revoking
<1>2. ASSUME NEW h \in Handlers PROVE ~(Store(h) \/ Rotate(h))
  BY <1>0 DEF Store, Rotate, Placed, Busy, TypeOK
<1>3. session' # session
  OBVIOUS
<1>4. PICK h \in Handlers, x \in SessionIds : Issue(h, x)
  BY <1>1, <1>2, <1>3
  DEF Next, Handle, vars, Tick, Reactivate, ForgotPassword, Login, Refresh,
      KillReused, CheckAccount, Reply, Lose, Logout, RevokeSession,
      LogoutOthers, Suspend, Evict, ResetPassword, CommitReset, VerifyEmail,
      CommitVerify
<1> QED
  BY <1>4 DEF Issue

\* Only an administrator suspends, and goes on to revoke.
LEMMA OnlySuspendSuspends ==
  ASSUME TypeOK, [Next]_vars, status' = "SUSPENDED", status # "SUSPENDED"
  PROVE  \E h \in Handlers : /\ handler[h].pc = "idle"
                             /\ handler' = [handler EXCEPT ![h] = At("evict")]
<1>1. PICK h \in Handlers : Suspend(h)
  BY DEF Next, Handle, vars, Tick, Reactivate, ForgotPassword, Login, Refresh,
         Issue, Store, Rotate, KillReused, CheckAccount, Reply, Lose, Logout,
         RevokeSession, LogoutOthers, Suspend, Evict, ResetPassword,
         CommitReset, VerifyEmail, CommitVerify
<1> QED
  BY <1>1 DEF Suspend, Free, Goto

LEMMA EvictedStep ==
  IInv /\ Evicted /\ NoLoginPending /\ [Next]_vars => Evicted'
<1> SUFFICES ASSUME IInv, Evicted, NoLoginPending, [Next]_vars,
                    status' = "SUSPENDED"
             PROVE  \/ \E h \in Handlers : handler'[h].pc = "evict"
                    \/ \A s \in SessionIds :
                         session'[s] # NULL => session'[s].revoked
  BY DEF Evicted
<1>0. TypeOK
  BY DEF IInv
<1>1. CASE status # "SUSPENDED"
  <2>1. PICK h \in Handlers : handler' = [handler EXCEPT ![h] = At("evict")]
    BY <1>0, <1>1, OnlySuspendSuspends
  <2>2. handler'[h].pc = "evict"
    BY <1>0, <2>1 DEF At, TypeOK
  <2> QED
    BY <2>2
<1>2. ASSUME NEW h \in Handlers, handler[h].pc = "evict",
             handler'[h].pc # "evict",
             NEW s \in SessionIds, session'[s] # NULL
      PROVE  session'[s].revoked
  <2>1. session' = RevokedAmong(SessionIds)
    BY <1>0, <1>2, EvictGoesOn
  <2>2. session[s] # NULL /\ session[s] \in Row
    BY <1>0, <1>2, <2>1, Revoking DEF TypeOK
  <2>3. session'[s] = [session[s] EXCEPT !.revoked = TRUE]
    BY <2>1, <2>2 DEF RevokedAmong
  <2> QED
    BY <2>2, <2>3 DEF Row
<1>3. CASE /\ status = "SUSPENDED"
           /\ \A s \in SessionIds : session[s] # NULL => session[s].revoked
  <2> SUFFICES ASSUME NEW s \in SessionIds, session'[s] # NULL
               PROVE  session'[s].revoked
    OBVIOUS
  <2>1. session[s] # NULL
    BY <1>3, OnlyIssueInserts DEF NoLoginPending
  <2> QED
    BY <1>3, <2>1, StepKeepsRevoked
<1> QED
  BY <1>1, <1>2, <1>3 DEF Evicted

\* Suspending a user takes effect for good unless a login was between the
\* check of the password and the insertion of its session: no refresh, reset,
\* verification, or other login, in whatever order, keeps a session of a
\* suspended account alive (users.service.ts, auth.service.ts).
THEOREM SuspensionHolds ==
  Spec /\ []NoLoginPending => []SuspensionIsEffective
<1>1. Init => Evicted
  BY DEF Init, Evicted
<1>2. Evicted => SuspensionIsEffective
  BY DEF Evicted, SuspensionIsEffective, Live
<1> QED
  BY <1>1, <1>2, EvictedStep, Invariance, PTL DEF Spec

LEMMA AloneStep ==
  IInv /\ NoLoginPending /\ [Next]_vars /\ OneAtATime' => NoLoginPending'
<1> SUFFICES ASSUME IInv, NoLoginPending, [Next]_vars, OneAtATime',
                    status' = "SUSPENDED",
                    NEW g \in Handlers, handler'[g].pc = "issue"
             PROVE  FALSE
  BY DEF NoLoginPending
<1>0. TypeOK
  BY DEF IInv
<1>1. CASE status # "SUSPENDED"
  <2>1. PICK h \in Handlers : handler' = [handler EXCEPT ![h] = At("evict")]
    BY <1>0, <1>1, OnlySuspendSuspends
  <2>2. handler'[h].pc = "evict"
    BY <1>0, <2>1 DEF At, TypeOK
  <2> QED
    BY <2>2 DEF OneAtATime
<1>2. CASE status = "SUSPENDED"
  <2>1. handler[g].pc # "issue"
    BY <1>2 DEF NoLoginPending
  <2>2. ASSUME NEW b \in Browsers, NEW h \in Handlers PROVE ~Login(h, b)
    BY <1>2 DEF Login
  <2>3. ASSUME NEW h \in Handlers, NEW q, q.pc # "issue",
               handler' = [handler EXCEPT ![h] = q]
        PROVE  FALSE
    BY <1>0, <2>1, <2>3 DEF TypeOK
  <2>4. handler' # handler
    BY <2>1
  <2>5. PICK h \in Handlers : Handle(h)
    BY <2>4 DEF Next, vars, Tick, Reactivate, ForgotPassword, Logout,
                LogoutOthers, RevokeSession
  <2>6. ASSUME NEW b \in Browsers, Refresh(h, b) PROVE FALSE
    <3> DEFINE r == [At("account") EXCEPT !.browser = b,
                                          !.session = jar[b].session]
    <3>1. \E q \in {At("done"), [r EXCEPT !.pc = "reuse"], r} :
            handler' = [handler EXCEPT ![h] = q]
      BY <2>6 DEF Refresh, Goto
    <3>2. \A q \in {At("done"), [r EXCEPT !.pc = "reuse"], r} : q.pc # "issue"
      <4>1. r.pc = "account" /\ DOMAIN r = {"pc", "browser", "session", "iat"}
        BY DEF At
      <4>2. [r EXCEPT !.pc = "reuse"].pc = "reuse"
        BY DEF At
      <4>3. At("done").pc = "done"
        BY DEF At
      <4> QED
        BY <4>1, <4>2, <4>3
    <3> HIDE DEF r
    <3> QED
      BY <2>3, <3>1, <3>2
  <2>7. ASSUME NEW s \in SessionIds, Issue(h, s) PROVE FALSE
    <3> DEFINE q == [handler[h] EXCEPT !.pc = "store", !.session = s]
    <3>1. handler' = [handler EXCEPT ![h] = q]
      BY <2>7 DEF Issue, Goto
    <3>2. handler[h] \in Handler
      BY <1>0 DEF TypeOK
    <3>3. q.pc = "store"
      BY <3>2 DEF Handler
    <3> HIDE DEF q
    <3> QED
      BY <2>3, <3>1, <3>3
  <2>8. CASE Store(h) \/ Rotate(h) \/ CheckAccount(h)
    <3>1. PICK q : /\ handler' = [handler EXCEPT ![h] = q]
                   /\ \/ q = [handler[h] EXCEPT !.pc = "reply", !.iat = now]
                      \/ q = At("done")
                      \/ q = [handler[h] EXCEPT !.pc = "rotate"]
      BY <2>8 DEF Store, Rotate, CheckAccount, Goto
    <3>2. handler[h] \in Handler
      BY <1>0 DEF TypeOK
    <3>3. CASE q = At("done")
      BY <2>3, <3>1, <3>3 DEF At
    <3>4. CASE q # At("done")
      <4>1. q.pc # "issue"
        BY <3>1, <3>2, <3>4 DEF Handler
      <4> QED
        BY <2>3, <3>1, <4>1
    <3> QED
      BY <3>3, <3>4
  <2>9. CASE \/ Lose(h) \/ KillReused(h) \/ Evict(h) \/ CommitReset(h)
             \/ CommitVerify(h) \/ Reply(h) \/ Suspend(h) \/ ResetPassword(h)
             \/ VerifyEmail(h)
    BY <2>3, <2>9 DEF Lose, KillReused, Evict, CommitReset, CommitVerify, Reply,
                      Suspend, ResetPassword, VerifyEmail, End, Goto, At
  <2> QED
    BY <2>2, <2>5, <2>6, <2>7, <2>8, <2>9 DEF Handle
<1> QED
  BY <1>1, <1>2

\* Requests handled one after the other never meet that case: what breaks the
\* promise is a race and nothing else.
THEOREM SuspensionHoldsSerially ==
  Spec /\ []OneAtATime => []SuspensionIsEffective
<1>1. Init => NoLoginPending
  BY DEF Init, NoLoginPending
<1>2. Spec /\ []OneAtATime => []NoLoginPending
  BY <1>1, AloneStep, Invariance, PTL DEF Spec
<1> QED
  BY <1>2, SuspensionHolds, PTL

=============================================================================
