------------------------------ MODULE Sessions ------------------------------
(***************************************************************************)
(* Sessions and rotating refresh tokens of one account                     *)
(* (apps/backend/src/auth/auth.service.ts), the browsers that hold its     *)
(* cookies (apps/frontend/src/lib/api-client.ts) and the administrator who *)
(* suspends it (users/users.service.ts).                                   *)
(*                                                                         *)
(* Every query filters by session or by user, so accounts do not interact  *)
(* and one is enough.  A refresh token is the signed pair of its session   *)
(* and the second it was issued in: two tokens of a session issued in the  *)
(* same second are equal, and so are their hashes.  Signing and storing    *)
(* the hash are one step.  Access-token expiry is not modelled: what a     *)
(* request is granted depends on the session row (jwt.strategy.ts).        *)
(***************************************************************************)
EXTENDS Integers, FiniteSets, Null

CONSTANTS
  SessionIds,      \* primary keys of the sessions table
  Browsers,        \* cookie jars
  Flaky,           \* browsers with several tabs and a network that loses replies
  Handlers,        \* requests of the workload
  MaxNow,          \* bound on the clock
  Ttl              \* lifetime of a session row since its last rotation

ASSUME SessionsAssumption ==
  /\ MaxNow \in Nat /\ Ttl \in Nat
  /\ Flaky \subseteq Browsers
  /\ NULL \notin Nat /\ NULL \notin SessionIds /\ NULL \notin Browsers

UserStatus == {"PENDING_VERIFICATION", "ACTIVE", "SUSPENDED"}

VARIABLES
  now,
  status,          \* users.status
  resetLink,       \* the reset token: "none", "live" or "consumed"
  verifyLink,      \* the verification token, likewise
  session,         \* the sessions table
  jar,             \* per browser, the refresh cookie
  handler          \* where each request's handler has got to

vars == <<now, status, resetLink, verifyLink, session, jar, handler>>

Row == [hash : Nat \cup {NULL}, revoked : BOOLEAN, expiresAt : Nat]
Token == [session : SessionIds, iat : Nat]
Link == {"none", "live", "consumed"}

ASSUME NullIsNoValue == NULL \notin Row /\ NULL \notin Token

Steps == {"idle", "issue", "store", "account", "rotate", "reuse", "reply",
          "evict", "reset", "verify", "done"}
Handler == [pc : Steps, browser : Browsers \cup {NULL},
            session : SessionIds \cup {NULL}, iat : Nat]

At(pc) == [pc |-> pc, browser |-> NULL, session |-> NULL, iat |-> 0]

Free(h) == handler[h].pc = "idle"
Goto(h, q) == handler' = [handler EXCEPT ![h] = q]
End(h) == Goto(h, At("done"))

Live(s) == /\ session[s] # NULL
           /\ ~session[s].revoked
           /\ session[s].expiresAt >= now

\* Mutant: the lifetime is subtracted.
FreshBackwards == [hash |-> NULL, revoked |-> FALSE, expiresAt |-> now - Ttl]

Fresh == [hash |-> NULL, revoked |-> FALSE, expiresAt |-> now + Ttl]

\* prisma.session.updateMany({ revokedAt: null } -> revoked)
RevokedAmong(S) ==
  [s \in SessionIds |->
     IF s \in S /\ session[s] # NULL
     THEN [session[s] EXCEPT !.revoked = TRUE] ELSE session[s]]

\* A tab has one refresh in flight (refreshPromise); a flaky browser has
\* several tabs on the same cookies.
InFlight(b) == {h \in Handlers : handler[h].browser = b}
\* Mutant: refreshPromise is gone, every request refreshes on its own.
MayAskAnytime(b) == b \in Browsers

MayAsk(b) == b \in Flaky \/ InFlight(b) = {}

-----------------------------------------------------------------------------
(* Login *)

\* The account is read, the password compared and the status checked.
Login(h, b) ==
  /\ Free(h) /\ MayAsk(b)
  /\ status = "ACTIVE"
  /\ Goto(h, [At("issue") EXCEPT !.browser = b])
  /\ UNCHANGED <<now, status, resetLink, verifyLink, session, jar>>

\* issueSession: a row with a placeholder hash ...
Issue(h, s) ==
  /\ handler[h].pc = "issue"
  /\ session[s] = NULL
  /\ session' = [session EXCEPT ![s] = Fresh]
  /\ Goto(h, [handler[h] EXCEPT !.pc = "store", !.session = s])
  /\ UNCHANGED <<now, status, resetLink, verifyLink, jar>>

\* ... and then the hash of the token signed for it.
Store(h) ==
  LET s == handler[h].session
  IN /\ handler[h].pc = "store"
     /\ session' = [session EXCEPT ![s].hash = now]
     /\ Goto(h, [handler[h] EXCEPT !.pc = "reply", !.iat = now])
     /\ UNCHANGED <<now, status, resetLink, verifyLink, jar>>

-----------------------------------------------------------------------------
(* Refresh *)

\* The cookie's session must be live; a token that is not the stored one is
\* taken for a reuse.
Refresh(h, b) ==
  LET token == jar[b]
      q == [At("account") EXCEPT !.browser = b, !.session = token.session]
  IN /\ Free(h) /\ MayAsk(b)
     /\ token # NULL
     /\ Goto(h, IF ~Live(token.session) THEN At("done")
                ELSE IF session[token.session].hash # token.iat
                THEN [q EXCEPT !.pc = "reuse"]
                ELSE q)
     /\ UNCHANGED <<now, status, resetLink, verifyLink, session, jar>>

\* Fail safe: the whole session goes.
KillReused(h) ==
  /\ handler[h].pc = "reuse"
  /\ session' = RevokedAmong({handler[h].session})
  /\ End(h)
  /\ UNCHANGED <<now, status, resetLink, verifyLink, jar>>

CheckAccount(h) ==
  /\ handler[h].pc = "account"
  /\ Goto(h, IF status = "SUSPENDED" THEN At("done")
             ELSE [handler[h] EXCEPT !.pc = "rotate"])
  /\ UNCHANGED <<now, status, resetLink, verifyLink, session, jar>>

\* Mutant: the row is written as a new one, revokedAt included.
RotatedAfresh(row) == [hash |-> now, revoked |-> FALSE, expiresAt |-> now + Ttl]

\* Hash and expiry are replaced; whether the row was revoked in the meantime
\* is neither looked at nor changed.
Rotated(row) == [row EXCEPT !.hash = now, !.expiresAt = now + Ttl]

Rotate(h) ==
  LET s == handler[h].session
  IN /\ handler[h].pc = "rotate"
     /\ session' = [session EXCEPT ![s] = Rotated(@)]
     /\ Goto(h, [handler[h] EXCEPT !.pc = "reply", !.iat = now])
     /\ UNCHANGED <<now, status, resetLink, verifyLink, jar>>

\* Set-Cookie reaches the browser, or the reply is lost on the way.
Reply(h) ==
  /\ handler[h].pc = "reply"
  /\ jar' = [jar EXCEPT ![handler[h].browser] =
       [session |-> handler[h].session, iat |-> handler[h].iat]]
  /\ End(h)
  /\ UNCHANGED <<now, status, resetLink, verifyLink, session>>

Lose(h) ==
  /\ handler[h].pc = "reply" /\ handler[h].browser \in Flaky
  /\ End(h)
  /\ UNCHANGED <<now, status, resetLink, verifyLink, session, jar>>

-----------------------------------------------------------------------------
(* Ending sessions *)

\* Each of these needs a live session of the caller's own.
SignedIn(b) == jar[b] # NULL /\ Live(jar[b].session)

\* logout clears the cookies too; revokeSession ends one from elsewhere.
Logout(b) ==
  /\ SignedIn(b) /\ MayAsk(b)
  /\ session' = RevokedAmong({jar[b].session})
  /\ jar' = [jar EXCEPT ![b] = NULL]
  /\ UNCHANGED <<now, status, resetLink, verifyLink, handler>>

RevokeSession(b, s) ==
  /\ SignedIn(b)
  /\ session[s] # NULL
  /\ session' = RevokedAmong({s})
  /\ UNCHANGED <<now, status, resetLink, verifyLink, jar, handler>>

LogoutOthers(b) ==
  /\ SignedIn(b)
  /\ session' = RevokedAmong(SessionIds \ {jar[b].session})
  /\ UNCHANGED <<now, status, resetLink, verifyLink, jar, handler>>

\* updateMember: first the account, then its sessions.
Suspend(h) ==
  /\ Free(h)
  /\ status' = "SUSPENDED"
  /\ Goto(h, At("evict"))
  /\ UNCHANGED <<now, resetLink, verifyLink, session, jar>>

Evict(h) ==
  /\ handler[h].pc = "evict"
  /\ session' = RevokedAmong(SessionIds)
  /\ End(h)
  /\ UNCHANGED <<now, status, resetLink, verifyLink, jar>>

Reactivate ==
  /\ status # "ACTIVE"
  /\ status' = "ACTIVE"
  /\ UNCHANGED <<now, resetLink, verifyLink, session, jar, handler>>

-----------------------------------------------------------------------------
(* Links sent by mail: read, then consumed in a transaction *)

ForgotPassword ==
  /\ resetLink = "none"
  /\ resetLink' = "live"
  /\ UNCHANGED <<now, status, verifyLink, session, jar, handler>>

ResetPassword(h) ==
  /\ Free(h) /\ resetLink = "live"
  /\ Goto(h, At("reset"))
  /\ UNCHANGED <<now, status, resetLink, verifyLink, session, jar>>

\* Consume the link, set the password, end every session: one transaction.
CommitReset(h) ==
  /\ handler[h].pc = "reset"
  /\ resetLink' = "consumed"
  /\ session' = RevokedAmong(SessionIds)
  /\ End(h)
  /\ UNCHANGED <<now, status, verifyLink, jar>>

VerifyEmail(h) ==
  /\ Free(h) /\ verifyLink = "live"
  /\ Goto(h, At("verify"))
  /\ UNCHANGED <<now, status, resetLink, verifyLink, session, jar>>

\* The status becomes ACTIVE whatever it was.
CommitVerify(h) ==
  /\ handler[h].pc = "verify"
  /\ verifyLink' = "consumed"
  /\ status' = "ACTIVE"
  /\ End(h)
  /\ UNCHANGED <<now, resetLink, session, jar>>

-----------------------------------------------------------------------------

Tick == /\ now < MaxNow
        /\ now' = now + 1
        /\ UNCHANGED <<status, resetLink, verifyLink, session, jar, handler>>

\* An account as it signed up, or one that has been verified since.
Init ==
  /\ now = 0
  /\ \/ status = "PENDING_VERIFICATION" /\ verifyLink = "live"
     \/ status = "ACTIVE" /\ verifyLink = "consumed"
  /\ resetLink = "none"
  /\ session = [s \in SessionIds |-> NULL]
  /\ jar = [b \in Browsers |-> NULL]
  /\ handler = [h \in Handlers |-> At("idle")]

Handle(h) ==
  \/ \E b \in Browsers : Login(h, b) \/ Refresh(h, b)
  \/ \E s \in SessionIds : Issue(h, s)
  \/ Store(h) \/ KillReused(h) \/ CheckAccount(h) \/ Rotate(h)
  \/ Reply(h) \/ Lose(h)
  \/ Suspend(h) \/ Evict(h)
  \/ ResetPassword(h) \/ CommitReset(h)
  \/ VerifyEmail(h) \/ CommitVerify(h)

Next ==
  \/ Tick \/ Reactivate \/ ForgotPassword
  \/ \E b \in Browsers : \/ Logout(b) \/ LogoutOthers(b)
                         \/ \E s \in SessionIds : RevokeSession(b, s)
  \/ \E h \in Handlers : Handle(h)

Spec == Init /\ [][Next]_vars

-----------------------------------------------------------------------------
(* What the design promises *)

TypeOK ==
  /\ now \in 0..MaxNow
  /\ status \in UserStatus
  /\ resetLink \in Link /\ verifyLink \in Link
  /\ session \in [SessionIds -> Row \cup {NULL}]
  /\ jar \in [Browsers -> Token \cup {NULL}]
  /\ handler \in [Handlers -> Handler]

\* A revoked session stays revoked: a rotation or a login that was under way
\* when the session was ended does not bring it back.
RevokedForGood ==
  [][\A s \in SessionIds : session[s] # NULL =>
       /\ session'[s] # NULL
       /\ session[s].revoked => session'[s].revoked]_vars

\* While a browser with one tab and a reliable network is not asking for a new
\* token, the cookie it holds is the one its session expects, if that is alive.
CookieIsCurrent ==
  \A b \in Browsers \ Flaky :
    InFlight(b) = {} /\ jar[b] # NULL /\ Live(jar[b].session) =>
      session[jar[b].session].hash = jar[b].iat

\* Such a browser never trips the reuse alarm of refresh.
NoFalseAlarm ==
  \A h \in Handlers :
    handler[h].pc = "reuse" => handler[h].browser \in Flaky

\* Two browsers never hold tokens of the same session: whatever is lost or
\* reordered, a login makes a session of its own.
OwnSession ==
  \A b, c \in Browsers : b # c /\ jar[b] # NULL /\ jar[c] # NULL =>
    jar[b].session # jar[c].session

-----------------------------------------------------------------------------
(* What the repository says of the program and the code does not keep *)

\* jwt.strategy.ts:31: suspending a user takes effect immediately.  Once the
\* administrator's request has ended and nothing else is under way, no
\* session of a suspended account is alive.
SuspensionIsEffective ==
  status = "SUSPENDED"
    /\ (\A h \in Handlers : handler[h].pc \in {"idle", "done"}) =>
    \A s \in SessionIds : ~Live(s)

=============================================================================
