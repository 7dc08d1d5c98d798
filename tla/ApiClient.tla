------------------------------ MODULE ApiClient ------------------------------
(***************************************************************************)
(* The frontend's API client (apps/frontend/src/lib/api-client.ts), its    *)
(* callers that sign in and out (hooks/use-auth.ts, use-current-user.ts,   *)
(* app/dashboard/layout.tsx), and the cookies and guards it meets          *)
(* (apps/backend/src/auth/auth.controller.ts, common/guards/).             *)
(*                                                                         *)
(* One browser, whose tabs share the cookies and nothing else.  Access,    *)
(* refresh and CSRF cookie are set together, so a generation number stands *)
(* for the three; 0 is none.  Cookies and body of an answer are taken in   *)
(* one step.  Whose account it is, is left out.                            *)
(***************************************************************************)
EXTENDS Naturals

CONSTANTS
  Tabs,
  Calls,           \* requests under way at a time
  CrossSite,       \* the frontend cannot read the API's cookies
  MaxGen           \* bound on the pairs of tokens that are handed out

ASSUME ApiAssumption == MaxGen \in Nat

VARIABLES
  jar,             \* the browser's cookies
  server,          \* the sessions
  tab,             \* what a tab keeps in memory
  call,            \* requests under way
  steady           \* workload: the network loses nothing

apiVars == <<jar, server, tab, call, steady>>

Gen == 0..MaxGen
Kind == {"me", "mutate", "login", "logout"}
Code == {0, 200, 401, 403}

\* access: the access token has not expired.
Jar == [gen : Gen, access : BOOLEAN]

\* The sessions table: a session is named by its first generation; origin is
\* the session of a generation and latest the one whose hash the row holds.
\* alarm is bookkeeping: a refresh token came twice.
Server == [last : Gen, origin : [Gen -> Gen], latest : [Gen -> Gen],
           alive : SUBSET Gen, alarm : BOOLEAN]

\* refresh is refreshPromise; seen and got are the cookie it was sent with and
\* the answer, 0 for a failure.  overtaken is bookkeeping: a profile arrived
\* that was older than the cookies.
Refreshing == {"none", "sent", "answered"}
Tab == [page : {"login", "dashboard"}, user : BOOLEAN, csrf : Gen,
        refresh : Refreshing, seen : Gen, got : Gen, overtaken : BOOLEAN]

\* gen, access and header are what the request carries.
Call == [pc : {"idle", "sent", "answered", "waiting"}, kind : Kind,
         tab : Tabs, gen : Gen, access : BOOLEAN, header : Gen,
         retried : BOOLEAN, code : Code, got : Gen]

\* One tab; what several of them do to a session is the subject of Sessions.
Lone == \A t, u \in Tabs : t = u

-----------------------------------------------------------------------------
(* The server *)

\* JwtAuthGuard: the token has not expired and its session is alive.
Alive(g) == server.origin[g] \in server.alive
SignedIn(c) == c.access /\ Alive(c.gen)

\* CsrfGuard, on the handlers that have @RequireCsrf.
Matches(c) == c.gen # 0 /\ c.header = c.gen

Answered(c, code, got) ==
  call' = [call EXCEPT ![c].pc = "answered", ![c].code = code, ![c].got = got]

NextGen == server.last + 1

\* issueSession, and rotateSession
Issued == [server EXCEPT !.last = NextGen, !.alive = @ \cup {NextGen},
                         !.origin[NextGen] = NextGen, !.latest[NextGen] = NextGen]
Rotated(s) == [server EXCEPT !.last = NextGen, !.origin[NextGen] = s,
                             !.latest[s] = NextGen]

Serve(c) ==
  LET q == call[c]
  IN /\ q.pc = "sent"
     /\ \/ /\ q.kind = "me"
           /\ Answered(c, IF SignedIn(q) THEN 200 ELSE 401, q.gen)
           /\ UNCHANGED server
        \/ /\ q.kind = "mutate"
           /\ Answered(c, IF ~SignedIn(q) THEN 401
                          ELSE IF ~Matches(q) THEN 403 ELSE 200, 0)
           /\ UNCHANGED server
        \/ /\ q.kind = "login"
           /\ server.last < MaxGen
           /\ server' = Issued
           /\ Answered(c, 200, NextGen)
        \/ /\ q.kind = "logout"
           /\ Answered(c, IF SignedIn(q) THEN 200 ELSE 401, 0)
           /\ server' = IF SignedIn(q)
                        THEN [server EXCEPT !.alive = @ \ {server.origin[q.gen]}]
                        ELSE server
     /\ UNCHANGED <<jar, tab, steady>>

\* POST /auth/refresh: no access token and no CSRF header are asked for.  A
\* refresh token that was rotated out ends the session.
ServeRefresh(t) ==
  LET g == tab[t].seen
      s == server.origin[g]
      answer(got) ==
        tab' = [tab EXCEPT ![t].refresh = "answered", ![t].got = got]
  IN /\ tab[t].refresh = "sent"
     /\ \/ /\ ~Alive(g)
           /\ answer(0)
           /\ UNCHANGED server
        \/ /\ Alive(g) /\ server.latest[s] = g
           /\ server.last < MaxGen
           /\ server' = Rotated(s)
           /\ answer(NextGen)
        \/ /\ Alive(g) /\ server.latest[s] # g
           /\ server' = [server EXCEPT !.alive = @ \ {s}, !.alarm = TRUE]
           /\ answer(0)
     /\ UNCHANGED <<jar, call, steady>>

-----------------------------------------------------------------------------
(* The client *)

\* The request interceptor: the token in memory, or else the cookie.
Header(t) == IF tab[t].csrf # 0 THEN tab[t].csrf
             ELSE IF CrossSite THEN 0 ELSE jar.gen

\* Header and cookies are attached whenever a request goes out.
Sent(c) == [c EXCEPT !.pc = "sent", !.gen = jar.gen, !.access = jar.access,
                     !.header = Header(c.tab)]

Blank(t) == [pc |-> "idle", kind |-> "me", tab |-> t, gen |-> 0,
             access |-> FALSE, header |-> 0, retried |-> FALSE, code |-> 0,
             got |-> 0]
Idle(c) == Blank(c.tab)

\* Pages ask for the profile and, once it is there, for everything else: the
\* layout shows nothing but a spinner before.  A form is submitted once.
Send(t, c, kind) ==
  /\ call[c].pc = "idle"
  /\ kind = "login" => \A d \in Calls : call[d].tab = t /\ call[d].kind = kind
                                        => call[d].pc = "idle"
  /\ IF kind = "login" THEN tab[t].page = "login"
     ELSE tab[t].page = "dashboard" /\ (kind = "me" \/ tab[t].user)
  /\ call' = [call EXCEPT ![c] = Sent([Blank(t) EXCEPT !.kind = kind])]
  /\ UNCHANGED <<jar, server, tab, steady>>

\* useLogin and useAcceptInvite: the session's cookies, token and page.
LoggedIn(t, g) ==
  /\ tab' = [tab EXCEPT ![t].csrf = g, ![t].page = "dashboard"]
  /\ jar' = [gen |-> g, access |-> TRUE]

\* useLogout
LoggedOut(t) ==
  /\ tab' = [tab EXCEPT ![t].csrf = 0, ![t].user = FALSE, ![t].page = "login"]
  /\ jar' = [gen |-> 0, access |-> FALSE]

\* fetchCurrentUser sets the token even when the query it ran for is gone.
ProfileArrived(t, g) ==
  /\ tab' = [tab EXCEPT ![t].user = TRUE, ![t].csrf = g,
                        ![t].overtaken = @ \/ g # jar.gen]
  /\ UNCHANGED jar

Succeed(c) ==
  LET t == call[c].tab
      g == call[c].got
  IN /\ call[c].pc = "answered" /\ call[c].code = 200
     /\ \/ call[c].kind = "me" /\ ProfileArrived(t, g)
        \/ call[c].kind = "login" /\ LoggedIn(t, g)
        \/ call[c].kind = "logout" /\ LoggedOut(t)
        \/ call[c].kind = "mutate" /\ UNCHANGED <<tab, jar>>
     /\ call' = [call EXCEPT ![c] = Idle(@)]
     /\ UNCHANGED <<server, steady>>

\* Mutant: each request that fails starts a refresh of its own.
RetryAlone(c) ==
  LET t == call[c].tab
  IN /\ call[c].pc = "answered" /\ call[c].code = 401 /\ ~call[c].retried
     /\ call' = [call EXCEPT ![c].pc = "waiting", ![c].retried = TRUE]
     /\ tab' = [tab EXCEPT ![t].refresh = "sent", ![t].seen = jar.gen]
     /\ UNCHANGED <<jar, server, steady>>

\* A first 401: wait for the refresh under way, or for a new one.
Retry(c) ==
  LET t == call[c].tab
  IN /\ call[c].pc = "answered" /\ call[c].code = 401 /\ ~call[c].retried
     /\ call' = [call EXCEPT ![c].pc = "waiting", ![c].retried = TRUE]
     /\ tab' = IF tab[t].refresh = "none"
               THEN [tab EXCEPT ![t].refresh = "sent", ![t].seen = jar.gen]
               ELSE tab
     /\ UNCHANGED <<jar, server, steady>>

\* A second 401, or a refusal: the error goes to the page.  The dashboard's
\* layout leaves when there is no profile.
Desist(c) ==
  LET t == call[c].tab
  IN /\ call[c].pc = "answered"
     /\ call[c].code = 403 \/ (call[c].code = 401 /\ call[c].retried)
     /\ tab' = IF call[c].kind = "me"
               THEN [tab EXCEPT ![t].page = "login"] ELSE tab
     /\ call' = [call EXCEPT ![c] = Idle(@)]
     /\ UNCHANGED <<jar, server, steady>>

\* Mutant: the interceptor does not run for a retry.
AgainAsBefore(c, g) == [c EXCEPT !.pc = "sent", !.gen = g, !.access = TRUE]

\* A retry goes through the request interceptor too.
Again(c, g) ==
  [c EXCEPT !.pc = "sent", !.gen = g, !.access = TRUE, !.header = g]

\* The answer of the refresh: cookies, token, and every waiting request again.
Refreshed(t) ==
  LET g == tab[t].got
  IN /\ tab[t].refresh = "answered" /\ g # 0
     /\ jar' = [gen |-> g, access |-> TRUE]
     /\ tab' = [tab EXCEPT ![t].csrf = g, ![t].refresh = "none",
                           ![t].seen = 0, ![t].got = 0]
     /\ call' = [c \in Calls |->
          IF call[c].tab = t /\ call[c].pc = "waiting"
          THEN Again(call[c], g) ELSE call[c]]
     /\ UNCHANGED <<server, steady>>

\* A tab that has been loaded anew, on the page given.
Loaded(t, page) ==
  /\ tab' = [tab EXCEPT ![t] = [page |-> page, user |-> FALSE, csrf |-> 0,
                                refresh |-> "none", seen |-> 0, got |-> 0,
                                overtaken |-> @.overtaken]]
  /\ call' = [c \in Calls |-> IF call[c].tab = t THEN Idle(call[c]) ELSE call[c]]

\* handleSessionExpired: the location is changed and the page loaded anew,
\* unless it is the login page; there the waiting requests just fail.
Expired(t) ==
  /\ tab[t].refresh = "answered" /\ tab[t].got = 0
  /\ \/ tab[t].page = "dashboard" /\ Loaded(t, "login")
     \/ /\ tab[t].page = "login"
        /\ tab' = [tab EXCEPT ![t].refresh = "none", ![t].seen = 0]
        /\ call' = [c \in Calls |->
             IF call[c].tab = t /\ call[c].pc = "waiting"
             THEN Idle(call[c]) ELSE call[c]]
  /\ UNCHANGED <<jar, server, steady>>

\* The user reloads the page, and what was under way is dropped.
Reload(t) ==
  /\ tab[t].page = "dashboard"
  /\ steady => tab[t].refresh = "none"
               /\ \A c \in Calls : call[c].tab = t => call[c].pc = "idle"
  /\ Loaded(t, "dashboard")
  /\ UNCHANGED <<jar, server, steady>>

-----------------------------------------------------------------------------
(* Time and the network *)

Expire ==
  /\ jar.access
  /\ jar' = [jar EXCEPT !.access = FALSE]
  /\ UNCHANGED <<server, tab, call, steady>>

Lose(c) ==
  /\ ~steady /\ call[c].pc \in {"sent", "answered"}
  /\ call' = [call EXCEPT ![c] = Idle(@)]
  /\ UNCHANGED <<jar, server, tab, steady>>

\* The rotated cookie never reaches the browser.
LoseRefresh(t) ==
  /\ ~steady /\ tab[t].refresh \in {"sent", "answered"}
  /\ tab' = [tab EXCEPT ![t].refresh = "answered", ![t].got = 0]
  /\ UNCHANGED <<jar, server, call, steady>>

ApiInit ==
  /\ jar = [gen |-> 0, access |-> FALSE]
  /\ server = [last |-> 0, origin |-> [g \in Gen |-> 0],
               latest |-> [g \in Gen |-> 0], alive |-> {}, alarm |-> FALSE]
  /\ tab = [t \in Tabs |-> [page |-> "login", user |-> FALSE, csrf |-> 0,
                            refresh |-> "none", seen |-> 0, got |-> 0,
                            overtaken |-> FALSE]]
  /\ \E t \in Tabs :
       call = [c \in Calls |-> Blank(t)]
  /\ steady \in BOOLEAN

ApiNext ==
  \/ Expire
  \/ \E c \in Calls : \/ Serve(c) \/ Succeed(c) \/ Retry(c) \/ Desist(c)
                      \/ Lose(c)
                      \/ \E t \in Tabs, kind \in Kind : Send(t, c, kind)
  \/ \E t \in Tabs : \/ ServeRefresh(t) \/ Refreshed(t) \/ Expired(t)
                     \/ Reload(t) \/ LoseRefresh(t)

ApiSpec == ApiInit /\ [][ApiNext]_apiVars

-----------------------------------------------------------------------------
(* What the design promises *)

ApiTypeOK ==
  /\ jar \in Jar
  /\ server \in Server
  /\ tab \in [Tabs -> Tab]
  /\ call \in [Calls -> Call]
  /\ steady \in BOOLEAN
  \* No request waits for a refresh that is over.
  /\ \A c \in Calls : call[c].pc = "waiting" =>
       tab[call[c].tab].refresh # "none"

\* A single tab on a reliable network never presents a refresh token twice,
\* however many of its requests meet an expired access token at once.
LoneTabRaisesNoAlarm == Lone /\ steady => ~server.alarm

\* The CSRF guard refuses a single tab only after a profile has arrived that
\* a refresh or a login had overtaken: otherwise the token in memory is that of
\* the cookie, retries, reloads and lost answers included, and the header is
\* never missing.
RefusedOnlyIfOvertaken ==
  \A c \in Calls : Lone /\ call[c].pc = "answered" /\ call[c].code = 403
                     => tab[call[c].tab].overtaken

=============================================================================
