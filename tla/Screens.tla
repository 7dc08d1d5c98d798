------------------------------ MODULE Screens ------------------------------
(***************************************************************************)
(* What the screens of a signed-in user show.  A tab keeps the answers of  *)
(* the API in a cache (react-query) under keys; a page mounts queries and  *)
(* offers mutations; a mutation's hook and the gateway's events declare    *)
(* key prefixes stale.  A behaviour follows one query, one mutation of the *)
(* user and one of somebody else, while the user moves between the pages   *)
(* that matter to them.                                                    *)
(*                                                                         *)
(* The hooks, the pages and the controllers are the tables of WebApp.      *)
(***************************************************************************)
EXTENDS WebApp, Null

CONSTANTS
  Others,    \* what others do, one of each kind
  Both       \* what is tried at once, by the user and by somebody else

ASSUME ScreensAssumption == NULL \notin DOMAIN Writes /\ Others \subseteq DOMAIN Writes

-----------------------------------------------------------------------------
VARIABLES
  role, query, own, other,  \* whose tab, and what is followed
  page,
  data,     \* the cached answer: whose mutation it lacks, or None
  invalid,  \* isInvalidated
  fetch,    \* the request under way: Unasked, Asked, or what its answer lacks
  mine,     \* the user's mutation: Unasked, Sent, Refused, or what its answer lacks
  events,   \* on their way to the tab
  live,     \* the socket is connected
  excused   \* the screen was not told: lost, swallowed or overtaken

followed == <<role, query, own, other>>
screenVars == <<followed, page, data, invalid, fetch, mine, events, live, excused>>

Lacks == SUBSET {"own", "other"}
None == {"none"}
Unasked == None
Asked == {"asked"}
Sent == {"sent"}
Refused == {"refused"}
Mounted == query \in Shows[page][role]
Around == {"dashboard"} \cup
  {p \in Page : query \in Content(p, role).shows \/ own \in Content(p, role).offers}

ScreensTypeOK ==
  /\ role \in Role /\ query \in Queries /\ page \in Page
  /\ {own, other} \subseteq DOMAIN Writes \cup {NULL}
  /\ data \in Lacks \cup {None} /\ invalid \in BOOLEAN
  /\ fetch \in Lacks \cup {Unasked, Asked}
  /\ mine \in Lacks \cup {Unasked, Sent, Refused}
  /\ events \subseteq Announcement
  /\ live \in BOOLEAN
  /\ excused \in BOOLEAN

ScreensInit ==
  /\ role \in Role /\ query \in Queries
  /\ own \in {m \in Mutation : /\ query \in Writes[m].changes
                              /\ \E p \in Page : m \in Offers[p][role]} \cup {NULL}
  /\ other \in {m \in Others : query \in ChangesForOthers(m)} \cup {NULL}
  /\ NULL \in {own, other} \/ {own, other} \subseteq Both
  /\ page = "dashboard"
  /\ data = None /\ invalid = FALSE
  /\ fetch = IF query \in Shows["dashboard"][role] THEN Asked ELSE Unasked
  /\ mine = Unasked /\ events = {} /\ live = TRUE /\ excused = FALSE

-----------------------------------------------------------------------------
(* Fetching *)

Refetch == fetch' = Asked /\ excused' = FALSE
Still == UNCHANGED <<fetch, excused>>

\* A page whose query is stale, or older than staleTime, asks anew; a request
\* that is under way is joined.
Open(p) ==
  /\ page' = p
  /\ IF query \in Content(p, role).shows /\ fetch = Unasked
     THEN \/ Refetch
          \/ data # None /\ ~invalid /\ Still
     ELSE Still
  /\ UNCHANGED <<followed, data, invalid, mine, events, live>>

Navigate ==
  \/ \E p \in Around \ {page} : role \in Guard(page) /\ Open(p)
  \/ role \notin Guard(page) /\ Open(Redirect(page))

Read ==
  /\ fetch = Asked /\ role \in Answered[query]
  /\ fetch' = {}
  /\ UNCHANGED <<followed, page, data, invalid, mine, events, live, excused>>

Succeed ==
  /\ fetch \in Lacks
  /\ data' = fetch /\ fetch' = Unasked /\ invalid' = FALSE
  /\ UNCHANGED <<followed, page, mine, events, live, excused>>

\* A failure is retried once; for good, it keeps the data there is.
FetchFails ==
  /\ fetch # Unasked
  /\ \/ /\ query \in Retried /\ fetch' = Asked
        /\ UNCHANGED <<invalid, excused>>
     \/ /\ fetch' = Unasked /\ invalid' \in {invalid, TRUE}
        /\ excused' = TRUE
  /\ UNCHANGED <<followed, page, data, mine, events, live>>

Poll ==
  /\ query \in Polled /\ Mounted /\ fetch = Unasked
  /\ Refetch
  /\ UNCHANGED <<followed, page, data, invalid, mine, events, live>>

\* gcTime after the last page that shows it is left.
Collect ==
  /\ ~Mounted /\ data # None /\ fetch = Unasked
  /\ data' = None /\ invalid' = FALSE /\ excused' = FALSE
  /\ UNCHANGED <<followed, page, fetch, mine, events, live>>

\* invalidateQueries: the entry is marked, and refetched if a page shows it.  A
\* request under way is cancelled for a new one, but not a first load, and not
\* one nobody waits for any more: what these have read clears the mark.
Invalidate ==
  /\ invalid' = (data # None \/ fetch # Unasked \/ Mounted)
  /\ IF Mounted /\ (fetch = Unasked \/ data # None) THEN Refetch
     ELSE /\ fetch' = fetch
          /\ excused' = (excused \/ fetch \in Lacks \ {{}})

InvalidateBy(prefixes) ==
  /\ IF \E prefix \in prefixes : Matches(prefix, query)
     THEN Invalidate ELSE UNCHANGED <<invalid, fetch, excused>>
  /\ data' = data

-----------------------------------------------------------------------------
(* Writing *)

\* Mutant: a request that has not been answered counts as an answer.
WithoutEver(answer, who) == IF answer = None THEN answer ELSE answer \cup {who}
Without(answer, who) == IF answer \in Lacks THEN answer \cup {who} ELSE answer

\* The endpoint commits; every answer read before lacks what it wrote.
Outdate(who) ==
  /\ data' = Without(data, who)
  /\ fetch' = Without(fetch, who)

\* The gateway sends; a tab that is not connected hears nothing.  Of the events
\* those are followed that the query's entry reacts to.
Concerns(e) == \E prefix \in Heard(e) : Matches(prefix, query)
Announce(sent) ==
  LET told == {e \in sent : Concerns(e)}
  IN  IF live THEN events' = events \cup told /\ excused' = excused
      ELSE /\ events' = events
           /\ excused' = (excused \/ told # {})

\* The handler dies after its commit and before it tells the gateway.
DieUnannounced == events' = events /\ excused' = TRUE

Send ==
  /\ mine = Unasked /\ own \in Offers[page][role]
  /\ mine' = Sent
  /\ UNCHANGED <<followed, page, data, invalid, fetch, events, live, excused>>

\* The user's endpoint: refused by its role, failed before the commit or
\* after it, or done.
Serve ==
  /\ mine = Sent
  /\ \/ /\ mine' = IF role \in Writes[own].grants THEN Unasked ELSE Refused
        /\ UNCHANGED <<data, fetch, events, excused>>
     \/ /\ role \in Writes[own].grants /\ Outdate("own")
        /\ \/ mine' = {} /\ Announce(Emits(own))
           \/ mine' = Unasked /\ DieUnannounced
  /\ UNCHANGED <<followed, page, invalid, live>>

\* onSuccess, or the answer is lost.
Done ==
  /\ mine \in Lacks /\ mine' = Unasked
  /\ \/ query \notin Puts(own) /\ InvalidateBy(Drops[own])
     \/ /\ query \in Puts(own)
        /\ data' = mine /\ invalid' = FALSE /\ fetch' = fetch
        /\ excused' = (fetch \in Lacks)
     \/ excused' = TRUE /\ UNCHANGED <<data, invalid, fetch>>
  /\ UNCHANGED <<followed, page, events, live>>

OtherWrites ==
  /\ other # NULL
  /\ Outdate("other") /\ mine' = Without(mine, "other")
  /\ \/ Announce(Emits(other) \cup If(other \in Notifying, {"notification:new"}))
     \/ DieUnannounced
  /\ UNCHANGED <<followed, page, invalid, live>>

-----------------------------------------------------------------------------
(* Hearing *)

Hear ==
  \E e \in events :
    /\ events' = events \ {e}
    /\ InvalidateBy(Heard(e))
    /\ UNCHANGED <<followed, page, mine, live>>

\* What was on its way is lost; connecting again asks for nothing.
LoseLink ==
  /\ live /\ (\E e \in Announcement : Concerns(e)) /\ live' = FALSE
  /\ events' = {}
  /\ excused' = (excused \/ events # {})
  /\ UNCHANGED <<followed, page, data, invalid, fetch, mine>>

RegainLink ==
  /\ ~live /\ live' = TRUE
  /\ UNCHANGED <<followed, page, data, invalid, fetch, mine, events, excused>>

ScreensNext ==
  \/ Navigate \/ Read \/ Succeed \/ FetchFails \/ Poll \/ Collect
  \/ Send \/ Serve \/ Done \/ OtherWrites \/ Hear \/ LoseLink \/ RegainLink

ScreensSpec == ScreensInit /\ [][ScreensNext]_screenVars

-----------------------------------------------------------------------------
(* Properties *)

\* The queries the events are for, and the writes that send none.
Live == {"list", "palette", "ticket", "history", "slaDashboard", "slaViolations",
         "notifications"}
Unannounced == Watching \cup {"markRead", "markAllRead"}

\* What a user's own hook forgets: these show it when they are next loaded.
Forgotten ==
  {<<"updateMember", "agents">>} \cup
  {"updateProfile", "uploadAvatar"} \X {"team", "agents"} \cup
  Mutation \X {"analytics", "auditLogs"}

AtRest == fetch = Unasked /\ mine = Unasked /\ events = {} /\ live

\* Once everything that is on its way has arrived, a screen shows what its
\* user has changed, save the named omissions, and a live one what the others
\* have, unless an event or a request was lost, or an invalidation was
\* swallowed by a load it could not restart.
ScreensAreFresh ==
  AtRest /\ Mounted /\ data # None /\ excused = FALSE =>
    /\ "own" \in data => <<own, query>> \in Forgotten
    /\ "other" \in data => query \notin Live \/ other \in Unannounced

\* A page renders nothing for a role that the API refuses to it: no mutation
\* it offers, and no query but the two a customer's ticket page mounts.
NobodyIsTurnedAway ==
  /\ mine # Refused
  /\ Mounted /\ role \in Guard(page) /\ role \notin Answered[query] =>
       role = "CUSTOMER" /\ page = "ticket"
         /\ query \in {"macros", "agents"}

=============================================================================
