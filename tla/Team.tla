-------------------------------- MODULE Team --------------------------------
(***************************************************************************)
(* Accounts, roles and invitations: sign-up, e-mail links, login and       *)
(* refresh (apps/backend/src/auth/auth.service.ts), invitations and member *)
(* administration (users/users.service.ts), API keys as a second way in    *)
(* (api-keys/api-keys.service.ts), and the guards before them.             *)
(*                                                                         *)
(* E-mail addresses and slugs are unique columns, so an account is named   *)
(* by its address and an organization by its slug.  Role and permissions   *)
(* travel in the access token: they are those of the moment it was signed, *)
(* and the seed gives user:invite and user:manage to the same two roles,   *)
(* so the role decides.  An API key has its owner's present role instead.  *)
(* How sessions expire and rotate is the subject of Sessions.              *)
(***************************************************************************)
EXTENDS Naturals, Null

CONSTANTS
  Emails,          \* accounts that may come into being
  Slugs,           \* organizations, likewise
  Links,           \* primary keys of the three token tables
  SessionRows,     \* primary keys of the sessions table
  Requests,        \* how many requests may be under way at a time
  Grants,          \* roles that the workload asks for
  Workload,        \* how many requests it makes
  Seeded,          \* role of each account of the seeded organization, or NULL
  Demo             \* the slug of that organization

Role == {"CUSTOMER", "AGENT", "SENIOR_AGENT", "MANAGER", "ADMIN"}

\* NULL is no value, the seeded organization is one, and there are tokens.
ASSUME TeamAssumption ==
  /\ NULL \notin Emails \cup Slugs \cup Role \cup Links \cup SessionRows
  /\ Seeded \in [Emails -> Role \cup {NULL}] /\ Demo \in Slugs
  /\ Links # {} /\ Grants \subseteq Role /\ Workload \in Nat

VARIABLES
  member,          \* the users table
  link,            \* invite, verification and reset tokens
  access,          \* sessions, each with the role of its latest access token
  request,         \* where each request's handler has got to
  left,            \* requests the workload may still make
  keys,            \* owners of an API key
  calm,            \* workload: one request at a time, tokens fresh, no keys
  wasAdmin         \* bookkeeping: accounts that have been ADMIN at some time

teamVars == <<member, link, access, request, left, keys, calm, wasAdmin>>

Managing == {"MANAGER", "ADMIN"}

\* "none": no such account.  "DEACTIVATED" is set nowhere.
Status == {"none", "PENDING_VERIFICATION", "INVITED", "ACTIVE", "SUSPENDED"}

\* grantor is bookkeeping: who gave the account its role.
Account == [org : Slugs \cup {NULL}, role : Role, status : Status,
            password : BOOLEAN, grantor : Emails \cup {NULL}]

\* A link that was never mailed is of use to nobody.
Token == [kind : {"invite", "verify", "reset"}, user : Emails \cup {NULL},
          state : {"none", "lost", "mailed", "lapsed", "consumed"}]

Access == [user : Emails \cup {NULL}, role : Role,
           state : {"none", "live", "revoked"}]

Step == {"idle", "signup", "invite", "mail", "follow", "issue", "rotate",
         "update", "evict"}

\* actor: whose request it is; user: whose row it is about.
Handler == [pc : Step, kind : {"invite", "verify", "reset"},
            actor : Emails \cup {NULL}, user : Emails \cup {NULL},
            org : Slugs \cup {NULL}, by : Role, role : Role \cup {NULL},
            status : Status, link : Links \cup {NULL},
            row : SessionRows \cup {NULL}]

Blank == [pc |-> "idle", kind |-> "invite", actor |-> NULL, user |-> NULL,
          org |-> NULL, by |-> "CUSTOMER", role |-> NULL, status |-> "none",
          link |-> NULL, row |-> NULL]

\* A fresh primary key of a table: which one makes no difference.
Unused(table) == CHOOSE k \in DOMAIN table :
                   table[k].state = "none" \/ \A j \in DOMAIN table :
                                                table[j].state # "none"

Exists(e) == member[e].status # "none"
Goto(r, q) == request' = [request EXCEPT ![r] = q]
End(r) == Goto(r, Blank)

\* A handler starts; in a calm workload only when no other is under way.
Start(r, q) ==
  /\ left > 0 /\ left' = left - 1
  /\ request[r].pc = "idle"
  /\ calm => \A other \in Requests : request[other].pc = "idle"
  /\ Goto(r, q)

-----------------------------------------------------------------------------
(* Who is asking *)

\* Mutant: managers may hand out their own role.
AllowedPeers(role) ==
  CASE role = "ADMIN" -> Role
    [] role = "MANAGER" -> {"CUSTOMER", "AGENT", "SENIOR_AGENT", "MANAGER"}
    [] OTHER -> {}

\* ALLOWED_INVITE_ROLES, and its mirror in the frontend's lib/rbac.ts, which
\* fills the selects of the team page.
Allowed(role) == CASE role = "ADMIN" -> Role
                   [] role = "MANAGER" -> {"CUSTOMER", "AGENT", "SENIOR_AGENT"}
                   [] OTHER -> {}

\* JwtAuthGuard: a live session with the role of its token, or an API key with
\* the present role of its owner, whose status is not looked at.
Speaks(e, role) ==
  \/ /\ \E s \in SessionRows : access[s] = [user |-> e, role |-> role,
                                            state |-> "live"]
     /\ calm => role = member[e].role
  \/ e \in keys /\ ~calm /\ role = member[e].role

\* The request of a member who passes PermissionsGuard.
Asked(e, role) == [Blank EXCEPT !.actor = e, !.by = role, !.org = member[e].org]

-----------------------------------------------------------------------------
(* Becoming a member *)

NewMember(o, role, status, password, grantor) ==
  [org |-> o, role |-> role, status |-> status, password |-> password,
   grantor |-> grantor]

\* signup and signupCustomer look for the address and the slug first ...
Signup(r, e, o) ==
  /\ ~Exists(e)
  /\ \/ /\ \A u \in Emails : Exists(u) => member[u].org # o
        /\ Start(r, [Blank EXCEPT !.pc = "signup", !.user = e, !.org = o,
                                 !.role = "ADMIN"])
     \/ /\ \E u \in Emails : Exists(u) /\ member[u].org = o
        /\ Start(r, [Blank EXCEPT !.pc = "signup", !.user = e, !.org = o,
                                 !.role = "CUSTOMER"])
  /\ UNCHANGED <<member, link, access, keys, calm, wasAdmin>>

\* ... and the unique columns decide when the rows are inserted.
CommitSignup(r) ==
  LET q == request[r]
      new == NewMember(q.org, q.role, "PENDING_VERIFICATION", TRUE,
                       IF q.role = "ADMIN" THEN q.user ELSE NULL)
  IN /\ q.pc = "signup"
     /\ ~Exists(q.user)
     /\ q.role = "ADMIN" => \A u \in Emails : Exists(u) => member[u].org # q.org
     /\ member' = [member EXCEPT ![q.user] = new]
     /\ wasAdmin' = wasAdmin \cup (IF q.role = "ADMIN" THEN {q.user} ELSE {})
     /\ Goto(r, [Blank EXCEPT !.pc = "mail", !.kind = "verify", !.user = q.user])
     /\ UNCHANGED <<link, access, left, keys, calm>>

\* inviteUser checks the role that is granted and looks for the address ...
Invite(r, a, role, e, granted) ==
  /\ Speaks(a, role) /\ role \in Managing
  /\ granted \in Allowed(role)
  /\ ~Exists(e)
  /\ Start(r, [Asked(a, role) EXCEPT !.pc = "invite", !.user = e,
                                    !.role = granted])
  /\ UNCHANGED <<member, link, access, keys, calm, wasAdmin>>

\* ... and creates the account, without a password.
CommitInvite(r) ==
  LET q == request[r]
  IN /\ q.pc = "invite"
     /\ ~Exists(q.user)
     /\ member' = [member EXCEPT ![q.user] =
                     NewMember(q.org, q.role, "INVITED", FALSE, q.actor)]
     /\ wasAdmin' = wasAdmin \cup (IF q.role = "ADMIN" THEN {q.user} ELSE {})
     /\ Goto(r, [Blank EXCEPT !.pc = "mail", !.kind = "invite", !.user = q.user])
     /\ UNCHANGED <<link, access, left, keys, calm>>

\* The token is stored and mailed; MailService swallows the error when the
\* mail cannot be sent.
Mail(r) ==
  LET q == request[r]
      l == Unused(link)
  IN /\ q.pc = "mail"
     /\ link[l].state = "none"
     /\ \E state \in {"mailed", "lost"} :
          link' = [link EXCEPT ![l] =
                     [kind |-> q.kind, user |-> q.user, state |-> state]]
     /\ End(r)
     /\ UNCHANGED <<member, access, left, keys, calm, wasAdmin>>

\* resendVerification and forgotPassword
AskForLink(r, e, kind) ==
  /\ \/ kind = "verify" /\ member[e].status = "PENDING_VERIFICATION"
     \/ kind = "reset" /\ Exists(e)
  /\ Start(r, [Blank EXCEPT !.pc = "mail", !.kind = kind, !.user = e])
  /\ UNCHANGED <<member, link, access, keys, calm, wasAdmin>>

\* acceptInvite, verifyEmail and resetPassword read the token ...
Follow(r, l) ==
  /\ link[l].state = "mailed"
  /\ Start(r, [Blank EXCEPT !.pc = "follow", !.kind = link[l].kind,
                           !.user = link[l].user, !.link = l])
  /\ UNCHANGED <<member, link, access, keys, calm, wasAdmin>>

\* ... and use it in a later transaction, whatever has become of token and
\* account: a link may be used twice, and reactivates a suspended account.
AcceptInvite(r) ==
  LET q == request[r]
  IN /\ q.pc = "follow" /\ q.kind = "invite"
     /\ link' = [link EXCEPT ![q.link].state = "consumed"]
     /\ member' = [member EXCEPT ![q.user].password = TRUE,
                                 ![q.user].status = "ACTIVE"]
     /\ Goto(r, [Blank EXCEPT !.pc = "issue", !.actor = q.user,
                              !.by = member[q.user].role])
     /\ UNCHANGED <<access, left, keys, calm, wasAdmin>>

VerifyEmail(r) ==
  LET q == request[r]
  IN /\ q.pc = "follow" /\ q.kind = "verify"
     /\ link' = [link EXCEPT ![q.link].state = "consumed"]
     /\ member' = [member EXCEPT ![q.user].status = "ACTIVE"]
     /\ End(r)
     /\ UNCHANGED <<access, left, keys, calm, wasAdmin>>

\* session.updateMany({ userId, revokedAt: null } -> revoked)
SignedOut(e) ==
  [s \in SessionRows |-> IF access[s].user = e /\ access[s].state = "live"
                         THEN [access[s] EXCEPT !.state = "revoked"]
                         ELSE access[s]]

ResetPassword(r) ==
  LET q == request[r]
  IN /\ q.pc = "follow" /\ q.kind = "reset"
     /\ link' = [link EXCEPT ![q.link].state = "consumed"]
     /\ member' = [member EXCEPT ![q.user].password = TRUE]
     /\ access' = SignedOut(q.user)
     /\ End(r)
     /\ UNCHANGED <<left, keys, calm, wasAdmin>>

Lapse(l) ==
  /\ link[l].state = "mailed"
  /\ link' = [link EXCEPT ![l].state = "lapsed"]
  /\ UNCHANGED <<member, access, request, left, keys, calm, wasAdmin>>

-----------------------------------------------------------------------------
(* Signing in *)

\* Mutant: an account that an administrator activated may log in at once.
LoginUnchecked(r, e) ==
  /\ member[e].status = "ACTIVE"
  /\ Start(r, [Blank EXCEPT !.pc = "issue", !.actor = e, !.by = member[e].role])
  /\ UNCHANGED <<member, link, access, keys, calm, wasAdmin>>

Login(r, e) ==
  /\ member[e].status = "ACTIVE" /\ member[e].password
  /\ Start(r, [Blank EXCEPT !.pc = "issue", !.actor = e, !.by = member[e].role])
  /\ UNCHANGED <<member, link, access, keys, calm, wasAdmin>>

\* issueSession: the role is that of the row read at the start.
Issue(r) ==
  LET s == Unused(access)
  IN /\ request[r].pc = "issue"
     /\ access[s].state = "none"
     /\ access' = [access EXCEPT ![s] =
          [user |-> request[r].actor, role |-> request[r].by, state |-> "live"]]
     /\ End(r)
     /\ UNCHANGED <<member, link, left, keys, calm, wasAdmin>>

\* refresh looks at the account, and the new token has its role.
Refresh(r, s) ==
  LET e == access[s].user
  IN /\ access[s].state = "live"
     /\ member[e].status # "SUSPENDED"
     /\ Start(r, [Blank EXCEPT !.pc = "rotate", !.actor = e, !.row = s,
                              !.by = member[e].role])
     /\ UNCHANGED <<member, link, access, keys, calm, wasAdmin>>

Rotate(r) ==
  LET q == request[r]
  IN /\ q.pc = "rotate"
     /\ access' = [access EXCEPT ![q.row].role = q.by]
     /\ End(r)
     /\ UNCHANGED <<member, link, left, keys, calm, wasAdmin>>

\* ApiKeysController: for administrators.
CreateKey(e) ==
  /\ ~calm /\ e \notin keys
  /\ left > 0 /\ left' = left - 1
  /\ Speaks(e, "ADMIN")
  /\ keys' = keys \cup {e}
  /\ UNCHANGED <<member, link, access, request, calm, wasAdmin>>

\* Any administrator of the organization may remove it.
RemoveKey(a, e) ==
  /\ ~calm /\ e \in keys /\ member[e].org = member[a].org
  /\ left > 0 /\ left' = left - 1
  /\ Speaks(a, "ADMIN")
  /\ keys' = keys \ {e}
  /\ UNCHANGED <<member, link, access, request, calm, wasAdmin>>

-----------------------------------------------------------------------------
(* Administration *)

\* Mutant: members may change themselves.
UpdateAnyone(r, a, role, e, granted, status) ==
  /\ Speaks(a, role) /\ role \in Managing
  /\ Exists(e) /\ member[e].org = member[a].org
  /\ granted = NULL \/ granted \in Allowed(role)
  /\ Start(r, [Asked(a, role) EXCEPT !.pc = "update", !.user = e,
                                    !.role = granted, !.status = status])
  /\ UNCHANGED <<member, link, access, keys, calm, wasAdmin>>

\* updateMember: NULL and "none" leave role and status alone.  Which role the
\* target has is not looked at: a manager may demote an administrator.
UpdateMember(r, a, role, e, granted, status) ==
  /\ Speaks(a, role) /\ role \in Managing
  /\ e # a /\ Exists(e) /\ member[e].org = member[a].org
  /\ granted = NULL \/ granted \in Allowed(role)
  /\ Start(r, [Asked(a, role) EXCEPT !.pc = "update", !.user = e,
                                    !.role = granted, !.status = status])
  /\ UNCHANGED <<member, link, access, keys, calm, wasAdmin>>

\* Mutant: what the request leaves out is written too.
UpdatedAsAsked(row, q) ==
  [row EXCEPT !.role = q.role, !.grantor = q.actor, !.status = q.status]

Updated(row, q) ==
  [row EXCEPT !.role = IF q.role = NULL THEN @ ELSE q.role,
              !.grantor = IF q.role = NULL THEN @ ELSE q.actor,
              !.status = IF q.status = "none" THEN @ ELSE q.status]

CommitUpdate(r) ==
  LET q == request[r]
  IN /\ q.pc = "update"
     /\ member' = [member EXCEPT ![q.user] = Updated(@, q)]
     /\ wasAdmin' = wasAdmin \cup (IF q.role = "ADMIN" THEN {q.user} ELSE {})
     /\ IF q.status = "SUSPENDED"
        THEN Goto(r, [q EXCEPT !.pc = "evict"]) ELSE End(r)
     /\ UNCHANGED <<link, access, left, keys, calm>>

\* The sessions that exist by now.
Evict(r) ==
  LET q == request[r]
  IN /\ q.pc = "evict"
     /\ access' = SignedOut(q.user)
     /\ End(r)
     /\ UNCHANGED <<member, link, left, keys, calm, wasAdmin>>

\* An error or a restart: what has not been written stays unwritten.
Fail(r) ==
  /\ request[r].pc # "idle" /\ ~calm
  /\ End(r)
  /\ UNCHANGED <<member, link, access, left, keys, calm, wasAdmin>>

-----------------------------------------------------------------------------

NoMember == NewMember(NULL, "CUSTOMER", "none", FALSE, NULL)

\* A new installation, or one with the demo organization of prisma/seed.ts.
TeamInit ==
  /\ \/ member = [e \in Emails |-> NoMember]
     \/ \E ada \in Emails :
          /\ Seeded[ada] = "ADMIN"
          /\ member = [e \in Emails |->
               IF Seeded[e] = NULL THEN NoMember
               ELSE NewMember(Demo, Seeded[e], "ACTIVE", TRUE, ada)]
  /\ wasAdmin = {e \in Emails : member[e].role = "ADMIN"}
  /\ link = [l \in Links |-> [kind |-> "invite", user |-> NULL, state |-> "none"]]
  /\ access = [s \in SessionRows |->
                 [user |-> NULL, role |-> "CUSTOMER", state |-> "none"]]
  /\ request = [r \in Requests |-> Blank]
  /\ left = Workload
  /\ keys = {}
  /\ calm \in BOOLEAN

Handle(r) ==
  \/ \E e \in Emails, o \in Slugs : Signup(r, e, o)
  \/ \E e \in Emails, kind \in {"verify", "reset"} : AskForLink(r, e, kind)
  \/ \E l \in Links : Follow(r, l)
  \/ \E e \in Emails : Login(r, e)
  \/ \E s \in SessionRows : Refresh(r, s)
  \/ \E a \in Emails, e \in Emails, role \in Managing :
       \/ \E granted \in Grants : Invite(r, a, role, e, granted)
       \/ \E granted \in Grants \cup {NULL},
             status \in {"none", "ACTIVE", "SUSPENDED"} :
            UpdateMember(r, a, role, e, granted, status)
  \/ CommitSignup(r) \/ CommitInvite(r) \/ Mail(r) \/ Issue(r) \/ Rotate(r)
  \/ AcceptInvite(r) \/ VerifyEmail(r) \/ ResetPassword(r)
  \/ CommitUpdate(r) \/ Evict(r) \/ Fail(r)

TeamNext ==
  \/ \E r \in Requests : Handle(r)
  \/ \E l \in Links : Lapse(l)
  \/ \E e \in Emails : CreateKey(e) \/ \E a \in Emails : RemoveKey(a, e)

TeamSpec == TeamInit /\ [][TeamNext]_teamVars

-----------------------------------------------------------------------------
(* What the design promises *)

TeamTypeOK ==
  /\ left \in 0..Workload
  /\ member \in [Emails -> Account]
  /\ link \in [Links -> Token]
  /\ access \in [SessionRows -> Access]
  /\ request \in [Requests -> Handler]
  /\ keys \subseteq Emails /\ wasAdmin \subseteq Emails
  /\ calm \in BOOLEAN

\* users.service.ts:20: managers cannot mint managers or administrators.  Who
\* has one of these roles has it from somebody who was ADMIN at some time, or
\* founded the organization: stale tokens, keys and races included.
PrivilegeIsGranted ==
  \A e \in Emails : Exists(e) /\ member[e].role \in Managing =>
    /\ member[e].grantor \in wasAdmin
    /\ member[member[e].grantor].org = member[e].org

\* Nobody gets a session for an account that has no password yet, not even one
\* that an administrator has set ACTIVE before the invitation was accepted.
PasswordBeforeSession ==
  \A s \in SessionRows : access[s].state # "none" =>
    member[access[s].user].password

\* One request after the other, with fresh tokens and no API keys: every
\* organization keeps somebody who can manage it.
SomebodyManages ==
  calm => \A e \in Emails : Exists(e) =>
    \E u \in Emails : /\ member[u].org = member[e].org
                      /\ member[u].role \in Managing
                      /\ member[u].status \in {"PENDING_VERIFICATION", "ACTIVE"}

\* As long as nothing fails: an invited account has an invitation, which is
\* usable unless its mail was lost or it lapsed, or is being made.
InvitedHasInvitation ==
  calm => \A e \in Emails : member[e].status = "INVITED" =>
    \/ \E r \in Requests : request[r].pc = "mail" /\ request[r].user = e
                             /\ request[r].kind = "invite"
    \/ \E l \in Links : link[l].kind = "invite" /\ link[l].user = e
                          /\ link[l].state \in {"mailed", "lost", "lapsed"}

\* Both: an invitation is what makes an account usable, and it is there for
\* every account that waits for one.
InvitationIsTheWayIn == PasswordBeforeSession /\ InvitedHasInvitation

=============================================================================
