----------------------------- MODULE TeamProofs -----------------------------
(***************************************************************************)
(* What holds of Team for every number of members, organizations, links,   *)
(* sessions, keys and requests under way: where roles come from, and that  *)
(* a session is one of an account with a password.                         *)
(*                                                                         *)
(* Handlers write what they decided on from an earlier read, and tokens    *)
(* keep a role that their owner has lost.  What saves both properties is   *)
(* that accounts only grow: nobody leaves an organization, loses the       *)
(* password or ceases to have been an administrator.  So what was checked  *)
(* once, for a request under way or for a session, stays true.             *)
(*                                                                         *)
(* In a calm workload, one request after the other, more holds: somebody   *)
(* is left who manages, and who is invited has an invitation.              *)
(***************************************************************************)
EXTENDS Team, TLAPS

Known(e) == e \in Emails /\ Exists(e)
Usable(e) == Known(e) /\ member[e].password

\* Whoever acts with this role has it rightly.
Entitled(e, role) == Known(e) /\ (role = "ADMIN" => e \in wasAdmin)

\* A role that is granted by a is one that a may grant.
Grantable(a, role) == role \in Managing => a \in wasAdmin

AccountIsSound(e) ==
  Exists(e) =>
    /\ member[e].org \in Slugs
    /\ member[e].role = "ADMIN" => e \in wasAdmin
    /\ member[e].role \in Managing =>
         /\ member[e].grantor \in wasAdmin
         /\ member[member[e].grantor].org = member[e].org

LinkIsSound(l) == l.state # "none" => Known(l.user)

AccessIsSound(s) ==
  s.state # "none" => Usable(s.user) /\ Entitled(s.user, s.role)

RequestIsSound(q) ==
  /\ q.pc = "signup" =>
       q.user \in Emails /\ q.org \in Slugs /\ q.role \in {"ADMIN", "CUSTOMER"}
  /\ q.pc = "invite" =>
       /\ q.user \in Emails /\ Known(q.actor)
       /\ q.org = member[q.actor].org /\ q.role \in Role
       /\ Grantable(q.actor, q.role)
  /\ q.pc \in {"mail", "evict"} => Known(q.user)
  /\ q.pc = "follow" =>
       Known(q.user) /\ q.link \in Links /\ link[q.link].state # "none"
  /\ q.pc = "issue" => Usable(q.actor) /\ Entitled(q.actor, q.by)
  /\ q.pc = "rotate" =>
       /\ q.row \in SessionRows /\ access[q.row].state # "none"
       /\ access[q.row].user = q.actor /\ Entitled(q.actor, q.by)
  /\ q.pc = "update" =>
       /\ Known(q.user) /\ Known(q.actor)
       /\ member[q.user].org = member[q.actor].org
       /\ Grantable(q.actor, q.role)

Sound ==
  /\ \A e \in Emails : AccountIsSound(e)
  /\ \A e \in wasAdmin \cup keys : Known(e)
  /\ \A l \in Links : LinkIsSound(link[l])
  /\ \A s \in SessionRows : AccessIsSound(access[s])
  /\ \A r \in Requests : RequestIsSound(request[r])

IInv == TeamTypeOK /\ Sound

\* Accounts only grow, and sessions keep their owners and links stay made.
Grows ==
  /\ \A e \in Emails : Exists(e) =>
       /\ member'[e].status # "none" /\ member'[e].org = member[e].org
       /\ member[e].password => member'[e].password
  /\ wasAdmin \subseteq wasAdmin'
  /\ \A s \in SessionRows : access[s].state # "none" =>
       access'[s].state # "none" /\ access'[s].user = access[s].user
  /\ \A l \in Links : link[l].state # "none" => link'[l].state # "none"

-----------------------------------------------------------------------------
(* What a step leaves alone *)

LEMMA GrownKnown ==
  ASSUME IInv, Grows
  PROVE  /\ \A e : Known(e) => Known(e)'
         /\ \A e : Usable(e) => Usable(e)'
         /\ \A e, role : Entitled(e, role) => Entitled(e, role)'
         /\ \A e : Known(e) => member'[e].org = member[e].org
  BY DEF Grows, Known, Usable, Entitled, Exists

\* A request that rests is as sound as it was.
LEMMA GrownRequest ==
  ASSUME IInv, Grows, NEW q \in Handler, RequestIsSound(q)
  PROVE  RequestIsSound(q)'
<1>1. \A a, role : Grantable(a, role) => Grantable(a, role)'
  BY DEF Grows, Grantable
<1>2. q.pc = "invite" => q.org = member'[q.actor].org
  BY GrownKnown DEF RequestIsSound
<1>3. q.pc = "rotate" => access'[q.row].state # "none" /\ access'[q.row].user = q.actor
  BY DEF RequestIsSound, Grows
<1>4. q.pc = "update" => member'[q.user].org = member'[q.actor].org
  BY GrownKnown DEF RequestIsSound
<1>5. q.pc = "follow" => link'[q.link].state # "none"
  BY DEF RequestIsSound, Grows
<1>6. QED
  BY <1>1, <1>2, <1>3, <1>4, <1>5, GrownKnown DEF RequestIsSound

\* What has to be looked at when one request moves.
LEMMA Moves ==
  ASSUME IInv, TeamTypeOK', Grows,
         NEW r \in Requests, NEW q \in Handler,
         Goto(r, q), RequestIsSound(q)',
         \A e \in Emails : AccountIsSound(e)',
         \A e \in (wasAdmin \cup keys)' : Known(e)',
         \A l \in Links : LinkIsSound(link[l])',
         \A s \in SessionRows : AccessIsSound(access[s])'
  PROVE  IInv'
<1>1. ASSUME NEW t \in Requests
      PROVE  RequestIsSound(request[t])'
  <2>1. CASE t = r
    <3>1. request'[t] = q
      BY <2>1 DEF Goto, IInv, TeamTypeOK
    <3> QED
      BY <3>1 DEF RequestIsSound
  <2>2. CASE t # r
    <3>1. PICK u \in Handler : u = request[t]
      BY DEF IInv, TeamTypeOK
    <3>2. request'[t] = u
      BY <2>2, <3>1 DEF Goto, IInv, TeamTypeOK
    <3>3. RequestIsSound(u)
      BY <3>1 DEF IInv, Sound
    <3>4. RequestIsSound(u)'
      BY <3>3, GrownRequest
    <3> QED
      BY <3>2, <3>4 DEF RequestIsSound
  <2> QED
    BY <2>1, <2>2
<1>2. QED
  BY <1>1 DEF IInv, Sound

\* Accounts, links and sessions that nobody writes.
LEMMA SameAccounts ==
  ASSUME IInv, UNCHANGED <<member, wasAdmin>>
  PROVE  \A e \in Emails : AccountIsSound(e)'
  BY DEF IInv, Sound, AccountIsSound, Exists

LEMMA SameLinks ==
  ASSUME IInv, Grows, UNCHANGED link
  PROVE  \A l \in Links : LinkIsSound(link[l])'
  BY GrownKnown DEF IInv, Sound, LinkIsSound

LEMMA SameAccess ==
  ASSUME IInv, Grows, UNCHANGED access
  PROVE  \A s \in SessionRows : AccessIsSound(access[s])'
  BY GrownKnown DEF IInv, Sound, AccessIsSound

LEMMA SamePeople ==
  ASSUME IInv, Grows, UNCHANGED <<wasAdmin, keys>>
  PROVE  \A e \in (wasAdmin \cup keys)' : Known(e)'
  BY GrownKnown DEF IInv, Sound

\* A handler that begins or ends and writes nothing.
LEMMA RequestMoves ==
  ASSUME IInv, NEW r \in Requests, NEW q \in Handler,
         Goto(r, q), RequestIsSound(q), left' \in 0..Workload,
         UNCHANGED <<member, link, access, keys, calm, wasAdmin>>
  PROVE  IInv'
<1>1. Grows
  BY DEF Grows, Exists
<1>2. TeamTypeOK'
  BY DEF Goto, IInv, TeamTypeOK
<1>3. RequestIsSound(q)'
  BY <1>1, GrownRequest
<1>4. QED
  BY <1>1, <1>2, <1>3, Moves, SameAccounts, SameLinks, SameAccess, SamePeople

LEMMA Starting ==
  ASSUME IInv, NEW r \in Requests, NEW q \in Handler,
         Start(r, q), RequestIsSound(q),
         UNCHANGED <<member, link, access, keys, calm, wasAdmin>>
  PROVE  IInv'
<1>1. left' \in 0..Workload /\ Goto(r, q)
  BY TeamAssumption DEF Start, IInv, TeamTypeOK
<1>2. QED
  BY <1>1, RequestMoves

LEMMA BlankIsSound ==
  Blank \in Handler /\ Blank.pc = "idle" /\ RequestIsSound(Blank)
  BY TeamAssumption DEF Blank, Handler, Step, Status, Role, RequestIsSound

-----------------------------------------------------------------------------
(* Who speaks, and what that entitles to *)

LEMMA SpeakersAreEntitled ==
  ASSUME IInv, NEW a \in Emails, NEW role, Speaks(a, role)
  PROVE  Entitled(a, role) /\ (a \notin keys => Usable(a))
<1>1. CASE \E s \in SessionRows :
             access[s] = [user |-> a, role |-> role, state |-> "live"]
  <2>1. PICK s \in SessionRows :
          access[s] = [user |-> a, role |-> role, state |-> "live"]
    BY <1>1
  <2>2. AccessIsSound(access[s])
    BY DEF IInv, Sound
  <2> QED
    BY <2>1, <2>2 DEF AccessIsSound
<1>2. CASE a \in keys /\ role = member[a].role
  BY <1>2 DEF IInv, Sound, AccountIsSound, Entitled, Known
<1>3. QED
  BY <1>1, <1>2 DEF Speaks

LEMMA GrantsAreGrantable ==
  ASSUME NEW a \in Emails, NEW role, NEW granted,
         Entitled(a, role), granted \in Allowed(role)
  PROVE  granted \in Role /\ Grantable(a, granted)
  BY DEF Allowed, Grantable, Managing, Role, Entitled

-----------------------------------------------------------------------------
(* Handlers begin *)

LEMMA SignupSafe ==
  ASSUME IInv, NEW r \in Requests, NEW e \in Emails,
         NEW o \in Slugs, Signup(r, e, o)
  PROVE  IInv'
<1> DEFINE q(role) == [Blank EXCEPT !.pc = "signup", !.user = e, !.org = o,
                                    !.role = role]
<1>1. ASSUME NEW role \in {"ADMIN", "CUSTOMER"}
      PROVE  q(role) \in Handler /\ RequestIsSound(q(role))
  BY ZenonT(60), <1>1, BlankIsSound DEF Blank, Handler, Step, Status, Role, RequestIsSound
<1>2. \E role \in {"ADMIN", "CUSTOMER"} : Start(r, q(role))
  BY DEF Signup
<1>3. PICK role \in {"ADMIN", "CUSTOMER"} : Start(r, q(role))
  BY <1>2
<1>4. UNCHANGED <<member, link, access, keys, calm, wasAdmin>>
  BY DEF Signup
<1> HIDE DEF q
<1>5. QED
  BY <1>1, <1>3, <1>4, Starting

LEMMA AskForLinkSafe ==
  ASSUME IInv, NEW r \in Requests, NEW e \in Emails,
         NEW kind \in {"verify", "reset"}, AskForLink(r, e, kind)
  PROVE  IInv'
<1> DEFINE q == [Blank EXCEPT !.pc = "mail", !.kind = kind, !.user = e]
<1>1. Known(e)
  BY DEF AskForLink, Known, Exists
<1>2. q \in Handler /\ RequestIsSound(q)
  BY ZenonT(60), <1>1, BlankIsSound DEF Blank, Handler, Step, RequestIsSound
<1>3. Start(r, q) /\ UNCHANGED <<member, link, access, keys, calm, wasAdmin>>
  BY DEF AskForLink
<1> HIDE DEF q
<1>4. QED
  BY <1>2, <1>3, Starting

LEMMA FollowSafe ==
  ASSUME IInv, NEW r \in Requests, NEW l \in Links, Follow(r, l)
  PROVE  IInv'
<1> DEFINE q == [Blank EXCEPT !.pc = "follow", !.kind = link[l].kind,
                              !.user = link[l].user, !.link = l]
<1>1. Known(link[l].user) /\ link[l] \in Token /\ link[l].state # "none"
  BY DEF Follow, IInv, TeamTypeOK, Sound, LinkIsSound
<1>2. q \in Handler
  BY <1>1, BlankIsSound DEF Blank, Handler, Step, Token
<1>3. q.pc = "follow" /\ q.user = link[l].user /\ q.link = l
  BY DEF Blank
<1>4. Start(r, q) /\ UNCHANGED <<member, link, access, keys, calm, wasAdmin>>
  BY DEF Follow
<1> HIDE DEF q
<1>5. RequestIsSound(q)
  BY <1>1, <1>3 DEF RequestIsSound
<1>6. QED
  BY <1>2, <1>4, <1>5, Starting

LEMMA LoginSafe ==
  ASSUME IInv, NEW r \in Requests, NEW e \in Emails, Login(r, e)
  PROVE  IInv'
<1> DEFINE q == [Blank EXCEPT !.pc = "issue", !.actor = e, !.by = member[e].role]
<1>1. Usable(e) /\ Entitled(e, member[e].role) /\ member[e].role \in Role
  BY DEF Login, Usable, Known, Entitled, Exists, IInv, TeamTypeOK, Account,
         Sound, AccountIsSound
<1>2. q \in Handler /\ RequestIsSound(q)
  BY ZenonT(60), <1>1, BlankIsSound DEF Blank, Handler, Step, RequestIsSound
<1>3. Start(r, q) /\ UNCHANGED <<member, link, access, keys, calm, wasAdmin>>
  BY DEF Login
<1> HIDE DEF q
<1>4. QED
  BY <1>2, <1>3, Starting

LEMMA RefreshSafe ==
  ASSUME IInv, NEW r \in Requests, NEW s \in SessionRows,
         Refresh(r, s)
  PROVE  IInv'
<1> DEFINE e == access[s].user
           q == [Blank EXCEPT !.pc = "rotate", !.actor = e, !.row = s,
                              !.by = member[e].role]
<1>1. Usable(e) /\ access[s].state # "none"
  BY DEF Refresh, IInv, Sound, AccessIsSound
<1>2. Entitled(e, member[e].role) /\ member[e].role \in Role /\ e \in Emails
  BY <1>1 DEF Usable, Known, Entitled, IInv, TeamTypeOK, Account,
              Sound, AccountIsSound
<1>3. Start(r, q) /\ UNCHANGED <<member, link, access, keys, calm, wasAdmin>>
  BY DEF Refresh
<1>4. q \in Handler /\ RequestIsSound(q)
  <2> HIDE DEF e
  <2>1. q \in Handler
    BY <1>2, BlankIsSound DEF Blank, Handler, Step
  <2>2. access[s].user = e
    BY DEF e
  <2> QED
    BY <1>1, <1>2, <2>1, <2>2, BlankIsSound DEF Blank, RequestIsSound
<1> HIDE DEF q
<1>5. QED
  BY <1>3, <1>4, Starting

LEMMA InviteSafe ==
  ASSUME IInv, NEW r \in Requests, NEW a \in Emails,
         NEW role \in Managing, NEW e \in Emails, NEW granted,
         Invite(r, a, role, e, granted)
  PROVE  IInv'
<1> DEFINE q == [Asked(a, role) EXCEPT !.pc = "invite", !.user = e,
                                       !.role = granted]
<1>1. Entitled(a, role)
  BY SpeakersAreEntitled DEF Invite
<1>2. granted \in Role /\ Grantable(a, granted)
  BY <1>1, GrantsAreGrantable DEF Invite
<1>3. Known(a) /\ member[a].org \in Slugs \cup {NULL} /\ role \in Role
  BY <1>1 DEF Entitled, IInv, TeamTypeOK, Account, Managing, Role
<1>4. q \in Handler /\ RequestIsSound(q)
  BY <1>2, <1>3, BlankIsSound DEF Asked, Blank, Handler, Step, RequestIsSound
<1>5. Start(r, q) /\ UNCHANGED <<member, link, access, keys, calm, wasAdmin>>
  BY DEF Invite
<1> HIDE DEF q
<1>6. QED
  BY <1>4, <1>5, Starting

LEMMA UpdateMemberSafe ==
  ASSUME IInv, NEW r \in Requests, NEW a \in Emails,
         NEW role \in Managing, NEW e \in Emails, NEW granted,
         NEW status \in {"none", "ACTIVE", "SUSPENDED"},
         UpdateMember(r, a, role, e, granted, status)
  PROVE  IInv'
<1> DEFINE q == [Asked(a, role) EXCEPT !.pc = "update", !.user = e,
                                       !.role = granted, !.status = status]
<1>1. Entitled(a, role)
  BY SpeakersAreEntitled DEF UpdateMember
<1>2. granted \in Role \cup {NULL} /\ Grantable(a, granted)
  BY TeamAssumption, <1>1, GrantsAreGrantable
     DEF UpdateMember, Grantable, Managing, Role
<1>3. /\ Known(a) /\ member[a].org \in Slugs \cup {NULL} /\ role \in Role
      /\ Known(e) /\ member[e].org = member[a].org
  BY <1>1 DEF Entitled, IInv, TeamTypeOK, Account, Managing, Role, UpdateMember,
              Known
<1>4. q \in Handler
  BY <1>2, <1>3, BlankIsSound DEF Asked, Blank, Handler, Step, Status
<1>5. /\ q.pc = "update" /\ q.user = e /\ q.actor = a /\ q.role = granted
  BY DEF Asked, Blank
<1>6. Start(r, q) /\ UNCHANGED <<member, link, access, keys, calm, wasAdmin>>
  BY DEF UpdateMember
<1> HIDE DEF q
<1>7. RequestIsSound(q)
  BY <1>2, <1>3, <1>5 DEF RequestIsSound
<1>8. QED
  BY <1>4, <1>6, <1>7, Starting

LEMMA FailSafe ==
  ASSUME IInv, NEW r \in Requests, Fail(r)
  PROVE  IInv'
  BY RequestMoves, BlankIsSound DEF Fail, End, IInv, TeamTypeOK

-----------------------------------------------------------------------------
(* Handlers write *)

\* A new account: nobody's grantor yet, because grantors exist.
LEMMA Joining ==
  ASSUME IInv, NEW u \in Emails, ~Exists(u),
         NEW new \in Account, new.status # "none", new.org \in Slugs,
         member' = [member EXCEPT ![u] = new],
         wasAdmin' = wasAdmin \cup (IF new.role = "ADMIN" THEN {u} ELSE {}),
         new.role \in Managing =>
           \/ new.grantor = u /\ new.role = "ADMIN"
           \/ new.grantor \in wasAdmin /\ member[new.grantor].org = new.org,
         UNCHANGED <<link, access, keys>>
  PROVE  /\ Grows
         /\ \A e \in Emails : AccountIsSound(e)'
         /\ \A e \in (wasAdmin \cup keys)' : Known(e)'
         /\ member' \in [Emails -> Account] /\ wasAdmin' \subseteq Emails
<1>1. /\ member'[u] = new
      /\ \A e \in Emails \ {u} : member'[e] = member[e]
  BY DEF IInv, TeamTypeOK
<1>2. Grows
  BY <1>1 DEF Grows, Exists
<1>3. \A e \in wasAdmin \cup keys : Known(e) /\ e # u
  BY DEF IInv, Sound, Known
<1>4. ASSUME NEW e \in Emails
      PROVE  AccountIsSound(e)'
  <2>1. CASE e = u
    BY <1>1, <1>3, <2>1 DEF AccountIsSound, Known
  <2>2. CASE e # u /\ Exists(e)
    <3>1. AccountIsSound(e)
      BY DEF IInv, Sound
    <3>2. member'[e] = member[e]
      BY <1>1, <2>2
    <3>3. member[e].role \in Managing =>
            /\ member[e].grantor \in Emails /\ member[e].grantor # u
            /\ member'[member[e].grantor] = member[member[e].grantor]
      BY <1>1, <1>3, <2>2, <3>1 DEF AccountIsSound, Known
    <3> QED
      BY <2>2, <3>1, <3>2, <3>3 DEF AccountIsSound
  <2>3. CASE e # u /\ ~Exists(e)
    BY <1>1, <2>3 DEF AccountIsSound, Exists
  <2> QED
    BY <2>1, <2>2, <2>3
<1>5. \A e \in (wasAdmin \cup keys)' : Known(e)'
  BY <1>1, <1>3 DEF Known, Exists
<1>6. member' \in [Emails -> Account] /\ wasAdmin' \subseteq Emails
  BY DEF IInv, TeamTypeOK
<1>7. QED
  BY <1>2, <1>4, <1>5, <1>6

\* Then the mail is next.
LEMMA JoiningMoves ==
  ASSUME IInv, NEW r \in Requests, NEW u \in Emails,
         NEW kind \in {"invite", "verify"},
         Grows, Known(u)',
         \A e \in Emails : AccountIsSound(e)',
         \A e \in (wasAdmin \cup keys)' : Known(e)',
         member' \in [Emails -> Account], wasAdmin' \subseteq Emails,
         Goto(r, [Blank EXCEPT !.pc = "mail", !.kind = kind, !.user = u]),
         UNCHANGED <<link, access, left, keys, calm>>
  PROVE  IInv'
<1> DEFINE q == [Blank EXCEPT !.pc = "mail", !.kind = kind, !.user = u]
<1>1. q \in Handler /\ q.pc = "mail" /\ q.user = u
  BY BlankIsSound DEF Blank, Handler, Step
<1>2. Goto(r, q)
  OBVIOUS
<1> HIDE DEF q
<1>3. RequestIsSound(q)'
  BY <1>1 DEF RequestIsSound
<1>4. TeamTypeOK'
  BY <1>1, <1>2 DEF Goto, IInv, TeamTypeOK
<1>5. QED
  BY <1>1, <1>2, <1>3, <1>4, Moves, SameLinks, SameAccess

LEMMA CommitSignupSafe ==
  ASSUME IInv, NEW r \in Requests, CommitSignup(r)
  PROVE  IInv'
<1>1. PICK q \in Handler : q = request[r]
  BY DEF IInv, TeamTypeOK
<1> DEFINE new == NewMember(q.org, q.role, "PENDING_VERIFICATION", TRUE,
                            IF q.role = "ADMIN" THEN q.user ELSE NULL)
<1>2. /\ q.user \in Emails /\ ~Exists(q.user)
      /\ q.org \in Slugs /\ q.role \in {"ADMIN", "CUSTOMER"}
  BY <1>1 DEF CommitSignup, IInv, Sound, RequestIsSound
<1>3. /\ new \in Account /\ new.status # "none" /\ new.org \in Slugs
      /\ new.role = q.role
      /\ new.role \in Managing => new.grantor = q.user /\ new.role = "ADMIN"
  BY <1>2 DEF NewMember, Account, Role, Status, Managing
<1>4. /\ member' = [member EXCEPT ![q.user] = new]
      /\ wasAdmin' = wasAdmin \cup (IF q.role = "ADMIN" THEN {q.user} ELSE {})
      /\ Goto(r, [Blank EXCEPT !.pc = "mail", !.kind = "verify", !.user = q.user])
      /\ UNCHANGED <<link, access, left, keys, calm>>
  BY <1>1 DEF CommitSignup
<1> HIDE DEF new
<1>5. Known(q.user)'
  BY <1>2, <1>3, <1>4 DEF Known, Exists, IInv, TeamTypeOK
<1>6. QED
  BY <1>2, <1>3, <1>4, <1>5, Joining, JoiningMoves

LEMMA CommitInviteSafe ==
  ASSUME IInv, NEW r \in Requests, CommitInvite(r)
  PROVE  IInv'
<1>1. PICK q \in Handler : q = request[r]
  BY DEF IInv, TeamTypeOK
<1> DEFINE new == NewMember(q.org, q.role, "INVITED", FALSE, q.actor)
<1>2. RequestIsSound(q) /\ q.pc = "invite" /\ ~Exists(q.user)
  BY <1>1 DEF CommitInvite, IInv, Sound
<1>3. /\ q.user \in Emails /\ Known(q.actor) /\ q.org = member[q.actor].org
      /\ q.role \in Role /\ Grantable(q.actor, q.role)
  BY <1>2 DEF RequestIsSound
<1>4. member[q.actor].org \in Slugs /\ q.actor \in Emails
  BY <1>3 DEF Known, IInv, Sound, AccountIsSound
<1>5. /\ new \in Account /\ new.status # "none" /\ new.org = q.org
      /\ new.role = q.role /\ new.grantor = q.actor
  BY <1>3, <1>4 DEF NewMember, Account, Role, Status
<1>6. /\ member' = [member EXCEPT ![q.user] = new]
      /\ wasAdmin' = wasAdmin \cup (IF q.role = "ADMIN" THEN {q.user} ELSE {})
      /\ Goto(r, [Blank EXCEPT !.pc = "mail", !.kind = "invite", !.user = q.user])
      /\ UNCHANGED <<link, access, left, keys, calm>>
  BY <1>1 DEF CommitInvite
<1> HIDE DEF new
<1>7. Known(q.user)'
  BY <1>3, <1>5, <1>6 DEF Known, Exists, IInv, TeamTypeOK
<1>8. new.role \in Managing =>
        new.grantor \in wasAdmin /\ member[new.grantor].org = new.org
  BY <1>3, <1>5 DEF Grantable
<1>9. QED
  BY <1>2, <1>3, <1>4, <1>5, <1>6, <1>7, <1>8, Joining, JoiningMoves

\* A handler ends having written something.
LEMMA Ending ==
  ASSUME IInv, TeamTypeOK', Grows, NEW r \in Requests, End(r),
         \A e \in Emails : AccountIsSound(e)',
         \A e \in (wasAdmin \cup keys)' : Known(e)',
         \A l \in Links : LinkIsSound(link[l])',
         \A s \in SessionRows : AccessIsSound(access[s])'
  PROVE  IInv'
<1>1. Blank \in Handler /\ Goto(r, Blank)
  BY BlankIsSound DEF End
<1>2. RequestIsSound(Blank)'
  BY BlankIsSound DEF RequestIsSound, Blank
<1>3. QED
  BY <1>1, <1>2, Moves

LEMMA MailSafe ==
  ASSUME IInv, NEW r \in Requests, Mail(r)
  PROVE  IInv'
<1>1. PICK q \in Handler : q = request[r]
  BY DEF IInv, TeamTypeOK
<1>2. q.pc = "mail" /\ Known(q.user)
  BY <1>1 DEF Mail, IInv, Sound, RequestIsSound
<1> DEFINE made(state) == [kind |-> q.kind, user |-> q.user, state |-> state]
           l == Unused(link)
<1>3. /\ link[l].state = "none"
      /\ \E state \in {"mailed", "lost"} : link' = [link EXCEPT ![l] = made(state)]
  BY <1>1 DEF Mail
<1> HIDE DEF l
<1>4. PICK state \in {"mailed", "lost"} : link' = [link EXCEPT ![l] = made(state)]
  BY <1>3
<1>5. made(state) \in Token
  BY <1>2 DEF Token, Handler, Known
<1>6. End(r) /\ UNCHANGED <<member, access, left, keys, calm, wasAdmin>>
  BY DEF Mail
<1>7. TeamTypeOK'
  BY <1>4, <1>5, <1>6, BlankIsSound DEF End, Goto, IInv, TeamTypeOK
<1>8. Grows
  BY <1>3, <1>4, <1>6 DEF Grows, Exists, IInv, TeamTypeOK
<1>9. ASSUME NEW k \in Links
      PROVE  LinkIsSound(link[k])'
  <2>1. CASE k = l
    <3>1. link'[k].user = q.user
      BY <1>4, <2>1 DEF IInv, TeamTypeOK
    <3> QED
      BY <1>2, <1>8, <3>1, GrownKnown DEF LinkIsSound
  <2>2. CASE k # l
    <3>1. link'[k] = link[k]
      BY <1>4, <2>2 DEF IInv, TeamTypeOK
    <3> QED
      BY <1>8, <3>1, GrownKnown DEF IInv, Sound, LinkIsSound
  <2> QED
    BY <2>1, <2>2
<1>10. QED
  BY <1>6, <1>7, <1>8, <1>9, Ending, SameAccounts, SameAccess, SamePeople

LEMMA LapseSafe ==
  ASSUME IInv, NEW l \in Links, Lapse(l)
  PROVE  IInv'
<1>1. Grows
  BY DEF Lapse, Grows, Exists, IInv, TeamTypeOK
<1>2. TeamTypeOK'
  BY DEF Lapse, IInv, TeamTypeOK, Token
<1>3. ASSUME NEW k \in Links
      PROVE  LinkIsSound(link[k])'
  <2>1. link'[k].user = link[k].user /\ (link'[k].state # "none" => link[k].state # "none")
    BY DEF Lapse, IInv, TeamTypeOK, Token
  <2> QED
    BY <1>1, <2>1, GrownKnown DEF IInv, Sound, LinkIsSound
<1>4. ASSUME NEW t \in Requests
      PROVE  RequestIsSound(request[t])'
  <2>1. PICK u \in Handler : u = request[t]
    BY DEF IInv, TeamTypeOK
  <2>2. RequestIsSound(u)'
    BY <1>1, <2>1, GrownRequest DEF IInv, Sound
  <2>3. request'[t] = u
    BY <2>1 DEF Lapse
  <2> QED
    BY <2>2, <2>3 DEF RequestIsSound
<1>5. UNCHANGED <<member, wasAdmin, keys, access>>
  BY DEF Lapse
<1>6. QED
  BY <1>1, <1>2, <1>3, <1>4, <1>5, SameAccounts, SameAccess, SamePeople
     DEF IInv, Sound

LEMMA IssueSafe ==
  ASSUME IInv, NEW r \in Requests, Issue(r)
  PROVE  IInv'
<1>1. PICK q \in Handler : q = request[r]
  BY DEF IInv, TeamTypeOK
<1>2. q.pc = "issue" /\ Usable(q.actor) /\ Entitled(q.actor, q.by)
  BY <1>1 DEF Issue, IInv, Sound, RequestIsSound
<1> DEFINE new == [user |-> q.actor, role |-> q.by, state |-> "live"]
<1>3. PICK s : access[s].state = "none" /\ access' = [access EXCEPT ![s] = new]
  BY <1>1 DEF Issue
<1>4. new \in Access
  BY <1>2 DEF Access, Handler, Usable, Known
<1>5. End(r) /\ UNCHANGED <<member, link, left, keys, calm, wasAdmin>>
  BY DEF Issue
<1>6. TeamTypeOK'
  BY <1>3, <1>4, <1>5, BlankIsSound DEF End, Goto, IInv, TeamTypeOK
<1>7. Grows
  BY <1>3, <1>5 DEF Grows, Exists, IInv, TeamTypeOK
<1>8. ASSUME NEW k \in SessionRows
      PROVE  AccessIsSound(access[k])'
  <2>1. CASE k = s
    <3>1. access'[k] = new
      BY <1>3, <2>1 DEF IInv, TeamTypeOK
    <3> QED
      BY <1>2, <1>7, <3>1, GrownKnown DEF AccessIsSound
  <2>2. CASE k # s
    <3>1. access'[k] = access[k]
      BY <1>3, <2>2 DEF IInv, TeamTypeOK
    <3> QED
      BY <1>7, <3>1, GrownKnown DEF IInv, Sound, AccessIsSound
  <2> QED
    BY <2>1, <2>2
<1>9. QED
  BY <1>5, <1>6, <1>7, <1>8, Ending, SameAccounts, SameLinks, SamePeople

LEMMA RotateSafe ==
  ASSUME IInv, NEW r \in Requests, Rotate(r)
  PROVE  IInv'
<1>1. PICK q \in Handler : q = request[r]
  BY DEF IInv, TeamTypeOK
<1>2. /\ q.pc = "rotate" /\ q.row \in SessionRows
      /\ access[q.row].state # "none" /\ access[q.row].user = q.actor
      /\ Entitled(q.actor, q.by)
  BY <1>1 DEF Rotate, IInv, Sound, RequestIsSound
<1>3. access' = [access EXCEPT ![q.row].role = q.by]
  BY <1>1 DEF Rotate
<1>4. /\ \A k \in SessionRows \ {q.row} : access'[k] = access[k]
      /\ access'[q.row] = [access[q.row] EXCEPT !.role = q.by]
      /\ access[q.row] \in Access /\ q.by \in Role
  BY <1>2, <1>3 DEF IInv, TeamTypeOK, Handler
<1>5. /\ access'[q.row].user = q.actor /\ access'[q.row].role = q.by
      /\ access'[q.row].state = access[q.row].state
      /\ access'[q.row] \in Access
  BY <1>2, <1>4 DEF Access
<1>6. End(r) /\ UNCHANGED <<member, link, left, keys, calm, wasAdmin>>
  BY DEF Rotate
<1>7. TeamTypeOK'
  BY <1>3, <1>4, <1>5, <1>6, BlankIsSound DEF End, Goto, IInv, TeamTypeOK
<1>8. Grows
  BY <1>2, <1>4, <1>5, <1>6 DEF Grows, Exists
<1>9. ASSUME NEW k \in SessionRows
      PROVE  AccessIsSound(access[k])'
  <2>1. CASE k = q.row
    <3>1. Usable(q.actor)
      BY <1>2 DEF IInv, Sound, AccessIsSound
    <3> QED
      BY <1>2, <1>5, <1>8, <2>1, <3>1, GrownKnown DEF AccessIsSound
  <2>2. CASE k # q.row
    BY <1>4, <1>8, <2>2, GrownKnown DEF IInv, Sound, AccessIsSound
  <2> QED
    BY <2>1, <2>2
<1>10. QED
  BY <1>6, <1>7, <1>8, <1>9, Ending, SameAccounts, SameLinks, SamePeople

-----------------------------------------------------------------------------
(* Rows that change *)

LEMMA Changing ==
  ASSUME IInv, NEW u, Known(u), NEW new \in Account,
         new.status # "none", new.org = member[u].org,
         member[u].password => new.password,
         member' = [member EXCEPT ![u] = new],
         new.role = "ADMIN" => u \in wasAdmin',
         new.role \in Managing =>
           new.grantor \in wasAdmin /\ member[new.grantor].org = new.org,
         wasAdmin \subseteq wasAdmin', wasAdmin' \subseteq wasAdmin \cup {u},
         \A s \in SessionRows : access[s].state # "none" =>
           access'[s].state # "none" /\ access'[s].user = access[s].user,
         \A l \in Links : link[l].state # "none" => link'[l].state # "none",
         UNCHANGED keys
  PROVE  /\ Grows
         /\ \A e \in Emails : AccountIsSound(e)'
         /\ \A e \in (wasAdmin \cup keys)' : Known(e)'
         /\ member' \in [Emails -> Account] /\ wasAdmin' \subseteq Emails
<1>1. /\ u \in Emails /\ Exists(u) /\ member'[u] = new
      /\ \A e \in Emails \ {u} : member'[e] = member[e]
  BY DEF IInv, TeamTypeOK, Known
<1>2. Grows
  BY <1>1 DEF Grows, Exists
<1>3. \A e \in wasAdmin \cup keys : Known(e)
  BY DEF IInv, Sound
<1>4. \A e \in (wasAdmin \cup keys)' : Known(e)'
  BY <1>1, <1>2, <1>3, GrownKnown
<1>5. \A e : Known(e) => member'[e].org = member[e].org
  BY <1>2, GrownKnown
<1>6. ASSUME NEW e \in Emails
      PROVE  AccountIsSound(e)'
  <2>1. CASE e = u
    <3>1. member[u].org \in Slugs
      BY <1>1 DEF IInv, Sound, AccountIsSound
    <3>2. new.role \in Managing =>
            new.grantor \in wasAdmin' /\ member'[new.grantor].org = new.org
      BY <1>3, <1>5
    <3> QED
      BY <1>1, <2>1, <3>1, <3>2 DEF AccountIsSound
  <2>2. CASE e # u
    <3>1. member'[e] = member[e] /\ AccountIsSound(e)
      BY <1>1, <2>2 DEF IInv, Sound
    <3>2. Exists(e) /\ member[e].role \in Managing =>
            /\ member[e].grantor \in wasAdmin'
            /\ member'[member[e].grantor].org = member[e].org
      BY <1>3, <1>5, <3>1 DEF AccountIsSound
    <3> QED
      BY <3>1, <3>2 DEF AccountIsSound, Exists
  <2> QED
    BY <2>1, <2>2
<1>7. member' \in [Emails -> Account] /\ wasAdmin' \subseteq Emails
  BY <1>1 DEF IInv, TeamTypeOK
<1>8. QED
  BY <1>2, <1>4, <1>6, <1>7

\* What the row keeps.
LEMMA RowIsSound ==
  ASSUME IInv, NEW u, Known(u)
  PROVE  /\ u \in Emails /\ member[u] \in Account /\ member[u].status # "none"
         /\ member[u].role = "ADMIN" => u \in wasAdmin
         /\ member[u].role \in Managing =>
              /\ member[u].grantor \in wasAdmin
              /\ member[member[u].grantor].org = member[u].org
  BY DEF IInv, TeamTypeOK, Sound, AccountIsSound, Known, Exists

\* A link is consumed.
LEMMA Consuming ==
  ASSUME IInv, NEW l \in Links, link[l].state # "none",
         link' = [link EXCEPT ![l].state = "consumed"]
  PROVE  /\ link' \in [Links -> Token]
         /\ \A k \in Links : /\ link[k].state # "none" => link'[k].state # "none"
                             /\ link'[k].state # "none" => link[k].state # "none"
                             /\ link'[k].user = link[k].user
<1>1. /\ \A k \in Links \ {l} : link'[k] = link[k]
      /\ link'[l] = [link[l] EXCEPT !.state = "consumed"]
      /\ link[l] \in Token
  BY DEF IInv, TeamTypeOK
<1>2. link'[l] \in Token /\ link'[l].user = link[l].user /\ link'[l].state = "consumed"
  BY <1>1 DEF Token
<1>3. link' \in [Links -> Token]
  BY <1>2 DEF IInv, TeamTypeOK
<1>4. QED
  BY <1>1, <1>2, <1>3

LEMMA ConsumedLinks ==
  ASSUME IInv, Grows, \A k \in Links : /\ link'[k].state # "none" => link[k].state # "none"
                                       /\ link'[k].user = link[k].user
  PROVE  \A k \in Links : LinkIsSound(link[k])'
  BY GrownKnown DEF IInv, Sound, LinkIsSound

LEMMA SigningOut ==
  ASSUME IInv, NEW e, access' = SignedOut(e)
  PROVE  /\ access' \in [SessionRows -> Access]
         /\ \A s \in SessionRows : /\ access'[s].user = access[s].user
                                   /\ access'[s].role = access[s].role
                                   /\ access[s].state # "none" <=> access'[s].state # "none"
<1>1. ASSUME NEW s \in SessionRows
      PROVE  /\ access'[s] \in Access
             /\ access'[s].user = access[s].user
             /\ access'[s].role = access[s].role
             /\ access[s].state # "none" <=> access'[s].state # "none"
  <2>1. access[s] \in Access
    BY DEF IInv, TeamTypeOK
  <2>2. access'[s] = IF access[s].user = e /\ access[s].state = "live"
                     THEN [access[s] EXCEPT !.state = "revoked"]
                     ELSE access[s]
    BY DEF SignedOut
  <2> QED
    BY <2>1, <2>2 DEF Access
<1>2. QED
  BY <1>1 DEF SignedOut

LEMMA SignedOutAccess ==
  ASSUME IInv, Grows, \A s \in SessionRows :
           /\ access'[s].user = access[s].user /\ access'[s].role = access[s].role
           /\ access[s].state # "none" <=> access'[s].state # "none"
  PROVE  \A s \in SessionRows : AccessIsSound(access[s])'
  BY GrownKnown DEF IInv, Sound, AccessIsSound

\* What a request that follows a link has found.
LEMMA Followed ==
  ASSUME IInv, NEW r \in Requests, NEW q \in Handler, q = request[r],
         q.pc = "follow"
  PROVE  Known(q.user) /\ q.link \in Links /\ link[q.link].state # "none"
  BY DEF IInv, Sound, RequestIsSound

LEMMA AcceptInviteSafe ==
  ASSUME IInv, NEW r \in Requests, AcceptInvite(r)
  PROVE  IInv'
<1>1. PICK q \in Handler : q = request[r]
  BY DEF IInv, TeamTypeOK
<1> DEFINE new == [member[q.user] EXCEPT !.password = TRUE, !.status = "ACTIVE"]
           next == [Blank EXCEPT !.pc = "issue", !.actor = q.user,
                                 !.by = member[q.user].role]
<1>2. /\ Known(q.user) /\ q.link \in Links /\ link[q.link].state # "none"
  BY <1>1, Followed DEF AcceptInvite
<1>3. /\ link' = [link EXCEPT ![q.link].state = "consumed"]
      /\ member' = [member EXCEPT ![q.user] = new]
      /\ Goto(r, next)
      /\ UNCHANGED <<access, left, keys, calm, wasAdmin>>
  BY <1>1, <1>2 DEF AcceptInvite, IInv, TeamTypeOK, Known, Account
<1>4. /\ member[q.user] \in Account /\ q.user \in Emails
      /\ new \in Account /\ new.status = "ACTIVE" /\ new.password
      /\ new.org = member[q.user].org /\ new.role = member[q.user].role
      /\ new.grantor = member[q.user].grantor
  BY <1>2, RowIsSound DEF Account, Status
<1>5. PICK role \in Role : role = member[q.user].role
  BY <1>4 DEF Account
<1>6. Goto(r, [Blank EXCEPT !.pc = "issue", !.actor = q.user, !.by = role])
  BY <1>3, <1>5
<1> HIDE DEF new, next
<1>7. /\ link' \in [Links -> Token]
      /\ \A k \in Links : /\ link[k].state # "none" => link'[k].state # "none"
                          /\ link'[k].state # "none" => link[k].state # "none"
                          /\ link'[k].user = link[k].user
  BY <1>2, <1>3, Consuming
<1>8. /\ Grows
      /\ \A e \in Emails : AccountIsSound(e)'
      /\ \A e \in (wasAdmin \cup keys)' : Known(e)'
      /\ member' \in [Emails -> Account] /\ wasAdmin' \subseteq Emails
  BY <1>2, <1>3, <1>4, <1>7, RowIsSound, Changing
<1> DEFINE step == [Blank EXCEPT !.pc = "issue", !.actor = q.user, !.by = role]
<1>9. /\ step \in Handler /\ step.pc = "issue" /\ step.actor = q.user
      /\ step.by = role
  BY ZenonT(60), <1>4, BlankIsSound DEF Blank, Handler, Step
<1>10. Goto(r, step)
  BY <1>6
<1> HIDE DEF step
<1>11. Entitled(q.user, role)
  BY <1>2, <1>5, RowIsSound DEF Entitled
<1>12. Usable(q.user)'
  BY <1>2, <1>3, <1>4 DEF Usable, Known, Exists, IInv, TeamTypeOK
<1>13. RequestIsSound(step)'
  BY <1>8, <1>9, <1>11, <1>12, GrownKnown DEF RequestIsSound
<1>14. TeamTypeOK'
  BY <1>3, <1>7, <1>8, <1>9, <1>10 DEF Goto, IInv, TeamTypeOK
<1>15. \A k \in Links : LinkIsSound(link[k])'
  BY <1>7, <1>8, ConsumedLinks
<1>16. QED
  BY <1>3, <1>8, <1>9, <1>10, <1>13, <1>14, <1>15, SameAccess, Moves

LEMMA VerifyEmailSafe ==
  ASSUME IInv, NEW r \in Requests, VerifyEmail(r)
  PROVE  IInv'
<1>1. PICK q \in Handler : q = request[r]
  BY DEF IInv, TeamTypeOK
<1> DEFINE new == [member[q.user] EXCEPT !.status = "ACTIVE"]
<1>2. /\ Known(q.user) /\ q.link \in Links /\ link[q.link].state # "none"
  BY <1>1, Followed DEF VerifyEmail
<1>3. /\ link' = [link EXCEPT ![q.link].state = "consumed"]
      /\ member' = [member EXCEPT ![q.user] = new]
      /\ End(r) /\ UNCHANGED <<access, left, keys, calm, wasAdmin>>
  BY <1>1 DEF VerifyEmail
<1>4. /\ new \in Account /\ new.status = "ACTIVE"
      /\ new.password = member[q.user].password
      /\ new.org = member[q.user].org /\ new.role = member[q.user].role
      /\ new.grantor = member[q.user].grantor
  BY <1>2, RowIsSound DEF Account, Status
<1> HIDE DEF new
<1>5. /\ link' \in [Links -> Token]
      /\ \A k \in Links : /\ link[k].state # "none" => link'[k].state # "none"
                          /\ link'[k].state # "none" => link[k].state # "none"
                          /\ link'[k].user = link[k].user
  BY <1>2, <1>3, Consuming
<1>6. /\ Grows
      /\ \A e \in Emails : AccountIsSound(e)'
      /\ \A e \in (wasAdmin \cup keys)' : Known(e)'
      /\ member' \in [Emails -> Account] /\ wasAdmin' \subseteq Emails
  BY <1>2, <1>3, <1>4, <1>5, RowIsSound, Changing
<1>7. TeamTypeOK'
  BY <1>3, <1>5, <1>6, BlankIsSound DEF End, Goto, IInv, TeamTypeOK
<1>8. \A k \in Links : LinkIsSound(link[k])'
  BY <1>5, <1>6, ConsumedLinks
<1>9. QED
  BY <1>3, <1>6, <1>7, <1>8, SameAccess, Ending

LEMMA ResetPasswordSafe ==
  ASSUME IInv, NEW r \in Requests, ResetPassword(r)
  PROVE  IInv'
<1>1. PICK q \in Handler : q = request[r]
  BY DEF IInv, TeamTypeOK
<1> DEFINE new == [member[q.user] EXCEPT !.password = TRUE]
<1>2. /\ Known(q.user) /\ q.link \in Links /\ link[q.link].state # "none"
  BY <1>1, Followed DEF ResetPassword
<1>3. /\ link' = [link EXCEPT ![q.link].state = "consumed"]
      /\ member' = [member EXCEPT ![q.user] = new]
      /\ access' = SignedOut(q.user)
      /\ End(r) /\ UNCHANGED <<left, keys, calm, wasAdmin>>
  BY <1>1 DEF ResetPassword
<1>4. /\ new \in Account /\ new.status # "none" /\ new.password
      /\ new.org = member[q.user].org /\ new.role = member[q.user].role
      /\ new.grantor = member[q.user].grantor
  BY <1>2, RowIsSound DEF Account
<1> HIDE DEF new
<1>5. /\ link' \in [Links -> Token]
      /\ \A k \in Links : /\ link[k].state # "none" => link'[k].state # "none"
                          /\ link'[k].state # "none" => link[k].state # "none"
                          /\ link'[k].user = link[k].user
  BY <1>2, <1>3, Consuming
<1>6. /\ access' \in [SessionRows -> Access]
      /\ \A s \in SessionRows : /\ access'[s].user = access[s].user
                                /\ access'[s].role = access[s].role
                                /\ access[s].state # "none" <=> access'[s].state # "none"
  BY <1>3, SigningOut
<1>7. /\ \A s \in SessionRows : access[s].state # "none" =>
           access'[s].state # "none" /\ access'[s].user = access[s].user
      /\ \A l \in Links : link[l].state # "none" => link'[l].state # "none"
  BY <1>5, <1>6
<1>8. /\ new.role = "ADMIN" => q.user \in wasAdmin'
      /\ new.role \in Managing =>
           new.grantor \in wasAdmin /\ member[new.grantor].org = new.org
  BY <1>2, <1>3, <1>4, RowIsSound
<1>9. /\ Grows
      /\ \A e \in Emails : AccountIsSound(e)'
      /\ \A e \in (wasAdmin \cup keys)' : Known(e)'
      /\ member' \in [Emails -> Account] /\ wasAdmin' \subseteq Emails
  BY <1>2, <1>3, <1>4, <1>7, <1>8, Changing
<1>10. TeamTypeOK'
  BY <1>3, <1>5, <1>6, <1>9, BlankIsSound DEF End, Goto, IInv, TeamTypeOK
<1>11. /\ \A k \in Links : LinkIsSound(link[k])'
      /\ \A s \in SessionRows : AccessIsSound(access[s])'
  BY <1>5, <1>6, <1>9, ConsumedLinks, SignedOutAccess
<1>12. QED
  BY <1>3, <1>9, <1>10, <1>11, Ending

LEMMA CommitUpdateSafe ==
  ASSUME IInv, NEW r \in Requests, CommitUpdate(r)
  PROVE  IInv'
<1>1. PICK q \in Handler : q = request[r]
  BY DEF IInv, TeamTypeOK
<1> DEFINE new == Updated(member[q.user], q)
<1>2. /\ q.pc = "update" /\ Known(q.user) /\ Known(q.actor)
      /\ member[q.user].org = member[q.actor].org
      /\ Grantable(q.actor, q.role)
  BY <1>1 DEF CommitUpdate, IInv, Sound, RequestIsSound
<1>3. /\ member' = [member EXCEPT ![q.user] = new]
      /\ wasAdmin' = wasAdmin \cup (IF q.role = "ADMIN" THEN {q.user} ELSE {})
      /\ IF q.status = "SUSPENDED"
         THEN Goto(r, [q EXCEPT !.pc = "evict"]) ELSE End(r)
      /\ UNCHANGED <<link, access, left, keys, calm>>
  BY <1>1 DEF CommitUpdate
<1>4. /\ member[q.user] \in Account /\ member[q.user].status # "none"
      /\ q.user \in Emails /\ q.actor \in Emails
      /\ q.role \in Role \cup {NULL} /\ q.status \in Status
  BY <1>2, RowIsSound DEF Handler, Known
<1>5. /\ new \in Account /\ new.status # "none"
      /\ new.org = member[q.user].org /\ new.password = member[q.user].password
      /\ new.role = IF q.role = NULL THEN member[q.user].role ELSE q.role
      /\ new.grantor = IF q.role = NULL THEN member[q.user].grantor ELSE q.actor
  BY <1>4 DEF Updated, Account
<1> HIDE DEF new
<1>6. new.role = "ADMIN" => q.user \in wasAdmin'
  BY <1>2, <1>3, <1>5, RowIsSound
<1>7. new.role \in Managing =>
        new.grantor \in wasAdmin /\ member[new.grantor].org = new.org
  BY <1>2, <1>5, RowIsSound DEF Grantable
<1>8. /\ Grows
      /\ \A e \in Emails : AccountIsSound(e)'
      /\ \A e \in (wasAdmin \cup keys)' : Known(e)'
      /\ member' \in [Emails -> Account] /\ wasAdmin' \subseteq Emails
  BY <1>2, <1>3, <1>5, <1>6, <1>7, Changing
<1>9. /\ \A l \in Links : LinkIsSound(link[l])'
      /\ \A s \in SessionRows : AccessIsSound(access[s])'
  BY <1>3, <1>8, SameLinks, SameAccess
<1>10. CASE q.status = "SUSPENDED"
  <2> DEFINE step == [q EXCEPT !.pc = "evict"]
  <2>1. step \in Handler /\ step.pc = "evict" /\ step.user = q.user
    BY DEF Handler, Step
  <2>2. Goto(r, step)
    BY <1>3, <1>10
  <2> HIDE DEF step
  <2>3. RequestIsSound(step)'
    BY <1>2, <1>8, <2>1, GrownKnown DEF RequestIsSound
  <2>4. TeamTypeOK'
    BY <1>3, <1>8, <2>1, <2>2 DEF Goto, IInv, TeamTypeOK
  <2> QED
    BY <1>8, <1>9, <2>1, <2>2, <2>3, <2>4, Moves
<1>11. CASE q.status # "SUSPENDED"
  <2>1. End(r)
    BY <1>3, <1>11
  <2>2. TeamTypeOK'
    BY <1>3, <1>8, <2>1, BlankIsSound DEF End, Goto, IInv, TeamTypeOK
  <2> QED
    BY <1>8, <1>9, <2>1, <2>2, Ending
<1>12. QED
  BY <1>10, <1>11

LEMMA EvictSafe ==
  ASSUME IInv, NEW r \in Requests, Evict(r)
  PROVE  IInv'
<1>1. PICK q \in Handler : q = request[r]
  BY DEF IInv, TeamTypeOK
<1>2. /\ access' = SignedOut(q.user)
      /\ End(r) /\ UNCHANGED <<member, link, left, keys, calm, wasAdmin>>
  BY <1>1 DEF Evict
<1>3. /\ access' \in [SessionRows -> Access]
      /\ \A s \in SessionRows : /\ access'[s].user = access[s].user
                                /\ access'[s].role = access[s].role
                                /\ access[s].state # "none" <=> access'[s].state # "none"
  BY <1>2, SigningOut
<1>4. Grows
  BY <1>2, <1>3 DEF Grows, Exists
<1>5. TeamTypeOK'
  BY <1>2, <1>3, BlankIsSound DEF End, Goto, IInv, TeamTypeOK
<1>6. QED
  BY <1>2, <1>3, <1>4, <1>5, Ending, SameAccounts, SameLinks, SamePeople,
     SignedOutAccess

-----------------------------------------------------------------------------
(* API keys *)

\* No handler, account, link or session is touched.
LEMMA KeysChange ==
  ASSUME IInv, keys' \subseteq Emails, left' \in 0..Workload,
         \A e \in keys' : Known(e),
         UNCHANGED <<member, link, access, request, calm, wasAdmin>>
  PROVE  IInv'
<1>1. Grows
  BY DEF Grows, Exists
<1>2. TeamTypeOK'
  BY DEF IInv, TeamTypeOK
<1>3. ASSUME NEW t \in Requests
      PROVE  RequestIsSound(request[t])'
  <2>1. PICK u \in Handler : u = request[t]
    BY DEF IInv, TeamTypeOK
  <2>2. RequestIsSound(u)'
    BY <1>1, <2>1, GrownRequest DEF IInv, Sound
  <2>3. request'[t] = u
    BY <2>1
  <2> QED
    BY <2>2, <2>3 DEF RequestIsSound
<1>4. \A e \in (wasAdmin \cup keys)' : Known(e)'
  BY <1>1, GrownKnown DEF IInv, Sound
<1>5. QED
  BY <1>1, <1>2, <1>3, <1>4, SameAccounts, SameLinks, SameAccess DEF IInv, Sound

LEMMA CreateKeySafe ==
  ASSUME IInv, NEW e \in Emails, CreateKey(e)
  PROVE  IInv'
<1>1. Known(e)
  BY SpeakersAreEntitled DEF CreateKey, Entitled
<1>2. keys' = keys \cup {e} /\ keys \subseteq Emails /\ \A k \in keys : Known(k)
  BY DEF CreateKey, IInv, TeamTypeOK, Sound
<1>3. left' \in 0..Workload
  BY TeamAssumption DEF CreateKey, IInv, TeamTypeOK
<1>4. QED
  BY <1>1, <1>2, <1>3, KeysChange DEF CreateKey

LEMMA RemoveKeySafe ==
  ASSUME IInv, NEW a, NEW e, RemoveKey(a, e)
  PROVE  IInv'
<1>1. keys' \subseteq keys /\ keys \subseteq Emails /\ \A k \in keys : Known(k)
  BY DEF RemoveKey, IInv, TeamTypeOK, Sound
<1>2. left' \in 0..Workload
  BY TeamAssumption DEF RemoveKey, IInv, TeamTypeOK
<1>3. QED
  BY <1>1, <1>2, KeysChange DEF RemoveKey

-----------------------------------------------------------------------------
(* The theorems *)

LEMMA InitSound ==
  ASSUME TeamInit
  PROVE  IInv
<1>1. NoMember \in Account /\ NoMember.status = "none" /\ NoMember.role = "CUSTOMER"
  BY DEF NoMember, NewMember, Account, Role, Status
<1>2. ASSUME NEW ada \in Emails, NEW e \in Emails, Seeded[e] # NULL
      PROVE  /\ NewMember(Demo, Seeded[e], "ACTIVE", TRUE, ada) \in Account
             /\ NewMember(Demo, Seeded[e], "ACTIVE", TRUE, ada).role = Seeded[e]
             /\ NewMember(Demo, Seeded[e], "ACTIVE", TRUE, ada).status = "ACTIVE"
             /\ NewMember(Demo, Seeded[e], "ACTIVE", TRUE, ada).org = Demo
             /\ NewMember(Demo, Seeded[e], "ACTIVE", TRUE, ada).grantor = ada
  BY TeamAssumption, <1>2 DEF NewMember, Account, Status
<1>3. /\ member \in [Emails -> Account]
      /\ \A e \in Emails : AccountIsSound(e)
      /\ \A e \in wasAdmin : Known(e)
  <2>1. CASE member = [e \in Emails |-> NoMember]
    <3>1. wasAdmin = {}
      BY <1>1, <2>1 DEF TeamInit
    <3> QED
      BY <1>1, <2>1, <3>1 DEF AccountIsSound, Exists
  <2>2. CASE \E ada \in Emails :
               /\ Seeded[ada] = "ADMIN"
               /\ member = [e \in Emails |->
                    IF Seeded[e] = NULL THEN NoMember
                    ELSE NewMember(Demo, Seeded[e], "ACTIVE", TRUE, ada)]
    <3>1. PICK ada \in Emails :
            /\ Seeded[ada] = "ADMIN"
            /\ member = [e \in Emails |->
                 IF Seeded[e] = NULL THEN NoMember
                 ELSE NewMember(Demo, Seeded[e], "ACTIVE", TRUE, ada)]
      BY <2>2
    <3>2. "ADMIN" # NULL
      BY TeamAssumption DEF Role
    <3>3. \A e \in Emails :
            /\ member[e] \in Account
            /\ Seeded[e] = NULL => member[e].status = "none" /\ member[e].role = "CUSTOMER"
            /\ Seeded[e] # NULL => /\ member[e].status = "ACTIVE" /\ member[e].org = Demo
                                   /\ member[e].role = Seeded[e] /\ member[e].grantor = ada
      BY <1>1, <1>2, <3>1
    <3>4. wasAdmin = {e \in Emails : member[e].role = "ADMIN"}
      BY DEF TeamInit
    <3>5. member \in [Emails -> Account]
      BY <3>1, <3>3
    <3>6. ada \in wasAdmin /\ member[ada].org = Demo
      BY <3>1, <3>2, <3>3, <3>4
    <3>7. \A e \in Emails : AccountIsSound(e)
      BY TeamAssumption, <3>3, <3>4, <3>6 DEF AccountIsSound, Exists
    <3>8. \A e \in wasAdmin : Known(e)
      BY <3>3, <3>4 DEF Known, Exists
    <3> QED
      BY <3>5, <3>7, <3>8
  <2> QED
    BY <2>1, <2>2 DEF TeamInit
<1>4. TeamTypeOK
  BY TeamAssumption, <1>3, BlankIsSound
     DEF TeamInit, TeamTypeOK, Token, Access, Role
<1>5. Sound
  BY <1>3, BlankIsSound DEF TeamInit, Sound, LinkIsSound, AccessIsSound
<1>6. QED
  BY <1>4, <1>5 DEF IInv

LEMMA NextSound ==
  ASSUME IInv, [TeamNext]_teamVars
  PROVE  IInv'
<1>1. ASSUME NEW r \in Requests, Handle(r)
      PROVE  IInv'
  <2>1. CASE \E e \in Emails, o \in Slugs : Signup(r, e, o)
    BY <2>1, SignupSafe
  <2>2. CASE \E e \in Emails, kind \in {"verify", "reset"} : AskForLink(r, e, kind)
    BY <2>2, AskForLinkSafe
  <2>3. CASE \E l \in Links : Follow(r, l)
    BY <2>3, FollowSafe
  <2>4. CASE \E e \in Emails : Login(r, e)
    BY <2>4, LoginSafe
  <2>5. CASE \E s \in SessionRows : Refresh(r, s)
    BY <2>5, RefreshSafe
  <2>6. CASE \E a \in Emails, e \in Emails, role \in Managing :
               \E granted \in Grants : Invite(r, a, role, e, granted)
    BY <2>6, InviteSafe
  <2>7. CASE \E a \in Emails, e \in Emails, role \in Managing :
               \E granted \in Grants \cup {NULL},
                  status \in {"none", "ACTIVE", "SUSPENDED"} :
                 UpdateMember(r, a, role, e, granted, status)
    BY <2>7, UpdateMemberSafe
  <2>8. CASE CommitSignup(r) \/ CommitInvite(r) \/ Mail(r)
    BY <2>8, CommitSignupSafe, CommitInviteSafe, MailSafe
  <2>9. CASE Issue(r) \/ Rotate(r)
    BY <2>9, IssueSafe, RotateSafe
  <2>10. CASE AcceptInvite(r) \/ VerifyEmail(r) \/ ResetPassword(r)
    BY <2>10, AcceptInviteSafe, VerifyEmailSafe, ResetPasswordSafe
  <2>11. CASE CommitUpdate(r) \/ Evict(r) \/ Fail(r)
    BY <2>11, CommitUpdateSafe, EvictSafe, FailSafe
  <2>12. QED
    BY <1>1, <2>1, <2>2, <2>3, <2>4, <2>5, <2>6, <2>7, <2>8, <2>9, <2>10, <2>11
       DEF Handle
<1>2. CASE \E l \in Links : Lapse(l)
  BY <1>2, LapseSafe
<1>3. CASE \/ \E e \in Emails : CreateKey(e)
           \/ \E a \in Emails, e \in Emails : RemoveKey(a, e)
  BY <1>3, CreateKeySafe, RemoveKeySafe
<1>4. CASE UNCHANGED teamVars
  <2>1. Grows /\ TeamTypeOK'
    BY <1>4 DEF teamVars, Grows, Exists, IInv, TeamTypeOK
  <2>2. keys' \subseteq Emails /\ left' \in 0..Workload /\ \A e \in keys' : Known(e)
    BY <1>4 DEF teamVars, IInv, TeamTypeOK, Sound
  <2> QED
    BY <1>4, <2>2, KeysChange DEF teamVars
<1>5. QED
  BY <1>1, <1>2, <1>3, <1>4 DEF TeamNext

\* The inductive invariant: what a request or a session was entitled to, it
\* still is.
THEOREM Invariance ==
  TeamSpec => []IInv
<1>1. TeamInit => IInv
  BY InitSound
<1>2. IInv /\ [TeamNext]_teamVars => IInv'
  BY NextSound
<1>3. QED
  BY <1>1, <1>2, PTL DEF TeamSpec

\* Every variable has its type, whoever joins and whatever they ask for.
THEOREM TypeCorrect ==
  TeamSpec => []TeamTypeOK
<1>1. IInv => TeamTypeOK
  BY DEF IInv
<1>2. QED
  BY <1>1, Invariance, PTL

\* Managers and administrators have their role from somebody who was an
\* administrator of the same organization at some time.
THEOREM PrivilegeGranted ==
  TeamSpec => []PrivilegeIsGranted
<1>1. IInv => PrivilegeIsGranted
  BY DEF IInv, Sound, AccountIsSound, PrivilegeIsGranted
<1>2. QED
  BY <1>1, Invariance, PTL

\* A session is one of an account that has a password: an invitation has been
\* accepted or an address registered before.
THEOREM PasswordFirst ==
  TeamSpec => []PasswordBeforeSession
<1>1. IInv => PasswordBeforeSession
  BY DEF IInv, Sound, AccessIsSound, Usable, PasswordBeforeSession
<1>2. QED
  BY <1>1, Invariance, PTL

-----------------------------------------------------------------------------
(***************************************************************************)
(* One request after the other.  In a calm workload a handler finds the    *)
(* tables as it left them: whoever changes a member still manages and is   *)
(* not that member, and the sessions of a suspended member are gone before *)
(* anybody speaks by them.                                                 *)
(***************************************************************************)

\* What a request began with still holds.  An organization that had a member
\* and a link that was made stay so in any workload.
RequestIsFresh(q) ==
  /\ q.pc = "signup" /\ q.role = "CUSTOMER" =>
       \E u \in Emails : Exists(u) /\ member[u].org = q.org
  /\ q.pc = "follow" => link[q.link].user = q.user /\ link[q.link].kind = q.kind
  /\ q.pc = "update" => q.status \in {"none", "ACTIVE", "SUSPENDED"}
  /\ calm /\ q.pc = "issue" => member[q.actor].status = "ACTIVE"
  /\ calm /\ q.pc = "update" =>
       /\ q.actor # q.user
       /\ member[q.actor].role \in Managing /\ member[q.actor].status = "ACTIVE"

OneByOne ==
  calm => \A r, t \in Requests :
    request[r].pc # "idle" /\ request[t].pc # "idle" => r = t

\* Who has a session is active, or is being suspended.
LiveIsActive ==
  calm => \A s \in SessionRows : access[s].state = "live" =>
    \/ member[access[s].user].status = "ACTIVE"
    \/ \E r \in Requests : /\ request[r].pc = "evict"
                           /\ request[r].user = access[s].user

Orderly ==
  /\ OneByOne
  /\ \A r \in Requests : RequestIsFresh(request[r])
  /\ LiveIsActive
  /\ SomebodyManages
  /\ InvitedHasInvitation

LEMMA Undisturbed ==
  ASSUME Orderly, NEW r \in Requests, request[r].pc # "idle"
  PROVE  calm => \A t \in Requests \ {r} : request[t].pc = "idle"
  BY DEF Orderly, OneByOne

\* What has to be looked at when one request moves.
LEMMA FreshMoves ==
  ASSUME IInv, Orderly, NEW r \in Requests, NEW q \in Handler, Goto(r, q),
         calm' = calm, calm => \A t \in Requests \ {r} : request[t].pc = "idle",
         \A e \in Emails : Exists(e) =>
           member'[e].status # "none" /\ member'[e].org = member[e].org,
         \A l \in Links : link[l].state # "none" =>
           link'[l].user = link[l].user /\ link'[l].kind = link[l].kind,
         RequestIsFresh(q)'
  PROVE  OneByOne' /\ \A t \in Requests : RequestIsFresh(request[t])'
<1>1. /\ request'[r] = q
      /\ \A t \in Requests \ {r} : request'[t] = request[t]
  BY DEF Goto, IInv, TeamTypeOK
<1>2. OneByOne'
  BY <1>1 DEF OneByOne
<1>3. ASSUME NEW t \in Requests
      PROVE  RequestIsFresh(request[t])'
  <2>1. CASE t = r
    BY <1>1, <2>1 DEF RequestIsFresh
  <2>2. CASE t # r
    <3>1. PICK u \in Handler : u = request[t]
      BY DEF IInv, TeamTypeOK
    <3>2. RequestIsFresh(u) /\ RequestIsSound(u) /\ (calm => u.pc = "idle")
      BY <2>2, <3>1 DEF Orderly, IInv, Sound
    <3>3. u.pc = "follow" => link'[u.link].user = u.user /\ link'[u.link].kind = u.kind
      BY <3>2 DEF RequestIsFresh, RequestIsSound
    <3>4. u.pc = "signup" /\ u.role = "CUSTOMER" =>
            \E e \in Emails : Exists(e)' /\ member'[e].org = u.org
      BY <3>2 DEF RequestIsFresh, Exists
    <3>5. RequestIsFresh(u)'
      BY <3>2, <3>3, <3>4 DEF RequestIsFresh
    <3> QED
      BY <1>1, <2>2, <3>1, <3>5 DEF RequestIsFresh
  <2> QED
    BY <2>1, <2>2
<1>4. QED
  BY <1>2, <1>3

LEMMA StillActive ==
  ASSUME IInv, Orderly, NEW r \in Requests, NEW q, Goto(r, q),
         request[r].pc # "evict", calm' = calm,
         \A s \in SessionRows : access'[s].state = "live" =>
           /\ access[s].state = "live" /\ access'[s].user = access[s].user
           /\ member[access[s].user].status = "ACTIVE" =>
                member'[access[s].user].status = "ACTIVE"
  PROVE  LiveIsActive'
<1>1. \A t \in Requests \ {r} : request'[t] = request[t]
  BY DEF Goto, IInv, TeamTypeOK
<1>2. QED
  BY <1>1 DEF Orderly, LiveIsActive

LEMMA StillManaged ==
  ASSUME Orderly, calm' = calm,
         \A e \in Emails : Exists(e)' => Exists(e),
         \A e \in Emails : /\ member'[e].org = member[e].org
                           /\ member'[e].role = member[e].role
                           /\ member'[e].status \in {"ACTIVE", member[e].status}
  PROVE  SomebodyManages'
<1>1. ASSUME calm', NEW e \in Emails, Exists(e)'
      PROVE  \E u \in Emails : /\ member'[u].org = member'[e].org
                               /\ member'[u].role \in Managing
                               /\ member'[u].status \in {"PENDING_VERIFICATION", "ACTIVE"}
  <2>1. PICK u \in Emails : /\ member[u].org = member[e].org
                            /\ member[u].role \in Managing
                            /\ member[u].status \in {"PENDING_VERIFICATION", "ACTIVE"}
    BY <1>1 DEF Orderly, SomebodyManages
  <2>2. member'[u].status \in {"PENDING_VERIFICATION", "ACTIVE"}
    BY <2>1
  <2> QED
    BY <2>1, <2>2
<1>2. QED
  BY <1>1 DEF SomebodyManages

\* The invitations of those who still wait are there.
LEMMA StillInvited ==
  ASSUME IInv, Orderly, NEW r \in Requests, NEW q, Goto(r, q),
         request[r].pc # "mail", calm' = calm,
         \A e \in Emails : member'[e].status = "INVITED" =>
           /\ member[e].status = "INVITED"
           /\ \A l \in Links :
                /\ link[l].kind = "invite" /\ link[l].user = e
                /\ link[l].state \in {"mailed", "lost", "lapsed"}
                => link'[l] = link[l]
  PROVE  InvitedHasInvitation'
<1>1. \A t \in Requests \ {r} : request'[t] = request[t]
  BY DEF Goto, IInv, TeamTypeOK
<1>2. ASSUME calm, NEW e \in Emails, member'[e].status = "INVITED"
      PROVE  \/ \E t \in Requests : /\ request'[t].pc = "mail" /\ request'[t].user = e
                                    /\ request'[t].kind = "invite"
             \/ \E l \in Links : /\ link'[l].kind = "invite" /\ link'[l].user = e
                                 /\ link'[l].state \in {"mailed", "lost", "lapsed"}
  BY <1>1, <1>2 DEF Orderly, InvitedHasInvitation
<1>3. QED
  BY <1>2 DEF InvitedHasInvitation

\* A handler begins and writes nothing.
LEMMA BeginsOrderly ==
  ASSUME IInv, Orderly, NEW r \in Requests, NEW q \in Handler, Start(r, q),
         RequestIsFresh(q), UNCHANGED <<member, link, access, calm>>
  PROVE  Orderly'
<1>1. /\ Goto(r, q) /\ request[r].pc = "idle"
      /\ calm => \A t \in Requests : request[t].pc = "idle"
  BY DEF Start
<1>2. RequestIsFresh(q)'
  BY DEF RequestIsFresh, Exists
<1>3. OneByOne' /\ \A t \in Requests : RequestIsFresh(request[t])'
  BY <1>1, <1>2, FreshMoves DEF Exists
<1>4. LiveIsActive'
  BY <1>1, StillActive
<1>5. SomebodyManages'
  BY StillManaged DEF Exists
<1>6. InvitedHasInvitation'
  BY <1>1, StillInvited
<1>7. QED
  BY <1>3, <1>4, <1>5, <1>6 DEF Orderly

LEMMA SignupOrderly ==
  ASSUME IInv, Orderly, NEW r \in Requests, NEW e \in Emails,
         NEW o \in Slugs, Signup(r, e, o)
  PROVE  Orderly'
<1> DEFINE q(role) == [Blank EXCEPT !.pc = "signup", !.user = e, !.org = o,
                                    !.role = role]
<1>1. ASSUME NEW role \in {"ADMIN", "CUSTOMER"}
      PROVE  /\ q(role) \in Handler /\ q(role).pc = "signup"
             /\ q(role).org = o /\ q(role).role = role
  BY <1>1, BlankIsSound DEF Blank, Handler, Step, Role
<1>2. PICK role \in {"ADMIN", "CUSTOMER"} :
        /\ Start(r, q(role))
        /\ role = "CUSTOMER" => \E u \in Emails : Exists(u) /\ member[u].org = o
  BY DEF Signup
<1>3. UNCHANGED <<member, link, access, calm>>
  BY DEF Signup
<1> HIDE DEF q
<1>4. RequestIsFresh(q(role))
  BY <1>1, <1>2 DEF RequestIsFresh
<1>5. QED
  BY <1>1, <1>2, <1>3, <1>4, BeginsOrderly

LEMMA AskForLinkOrderly ==
  ASSUME IInv, Orderly, NEW r \in Requests, NEW e \in Emails,
         NEW kind \in {"verify", "reset"}, AskForLink(r, e, kind)
  PROVE  Orderly'
<1> DEFINE q == [Blank EXCEPT !.pc = "mail", !.kind = kind, !.user = e]
<1>1. q \in Handler /\ q.pc = "mail"
  BY BlankIsSound DEF Blank, Handler, Step
<1>2. Start(r, q) /\ UNCHANGED <<member, link, access, calm>>
  BY DEF AskForLink
<1> HIDE DEF q
<1>3. RequestIsFresh(q)
  BY <1>1 DEF RequestIsFresh
<1>4. QED
  BY <1>1, <1>2, <1>3, BeginsOrderly

LEMMA FollowOrderly ==
  ASSUME IInv, Orderly, NEW r \in Requests, NEW l \in Links, Follow(r, l)
  PROVE  Orderly'
<1> DEFINE q == [Blank EXCEPT !.pc = "follow", !.kind = link[l].kind,
                              !.user = link[l].user, !.link = l]
<1>1. link[l] \in Token
  BY DEF IInv, TeamTypeOK
<1>2. q \in Handler
  BY <1>1, BlankIsSound DEF Blank, Handler, Step, Token
<1>3. q.pc = "follow" /\ q.user = link[l].user /\ q.kind = link[l].kind /\ q.link = l
  BY DEF Blank
<1>4. Start(r, q) /\ UNCHANGED <<member, link, access, calm>>
  BY DEF Follow
<1> HIDE DEF q
<1>5. RequestIsFresh(q)
  BY <1>3 DEF RequestIsFresh
<1>6. QED
  BY <1>2, <1>4, <1>5, BeginsOrderly

LEMMA LoginOrderly ==
  ASSUME IInv, Orderly, NEW r \in Requests, NEW e \in Emails, Login(r, e)
  PROVE  Orderly'
<1> DEFINE q == [Blank EXCEPT !.pc = "issue", !.actor = e, !.by = member[e].role]
<1>1. member[e] \in Account
  BY DEF IInv, TeamTypeOK
<1>2. q \in Handler
  BY <1>1, BlankIsSound DEF Blank, Handler, Step, Account
<1>3. q.pc = "issue" /\ q.actor = e /\ member[e].status = "ACTIVE"
  BY DEF Blank, Login
<1>4. Start(r, q) /\ UNCHANGED <<member, link, access, calm>>
  BY DEF Login
<1> HIDE DEF q
<1>5. RequestIsFresh(q)
  BY <1>3 DEF RequestIsFresh
<1>6. QED
  BY <1>2, <1>4, <1>5, BeginsOrderly

LEMMA RefreshOrderly ==
  ASSUME IInv, Orderly, NEW r \in Requests, NEW s \in SessionRows,
         Refresh(r, s)
  PROVE  Orderly'
<1> DEFINE e == access[s].user
           q == [Blank EXCEPT !.pc = "rotate", !.actor = e, !.row = s,
                              !.by = member[e].role]
<1>1. Usable(e)
  BY DEF Refresh, IInv, Sound, AccessIsSound
<1>2. e \in Emails /\ member[e].role \in Role
  BY <1>1 DEF Usable, Known, IInv, TeamTypeOK, Account
<1>3. Start(r, q) /\ UNCHANGED <<member, link, access, calm>>
  BY DEF Refresh
<1>4. q \in Handler /\ q.pc = "rotate"
  <2> HIDE DEF e
  <2> QED
    BY <1>2, BlankIsSound DEF Blank, Handler, Step
<1> HIDE DEF q
<1>5. RequestIsFresh(q)
  BY <1>4 DEF RequestIsFresh
<1>6. QED
  BY <1>3, <1>4, <1>5, BeginsOrderly

LEMMA InviteOrderly ==
  ASSUME IInv, Orderly, NEW r \in Requests, NEW a \in Emails,
         NEW role \in Managing, NEW e \in Emails, NEW granted,
         Invite(r, a, role, e, granted)
  PROVE  Orderly'
<1> DEFINE q == [Asked(a, role) EXCEPT !.pc = "invite", !.user = e,
                                       !.role = granted]
<1>1. member[a] \in Account /\ role \in Role /\ granted \in Role
  BY DEF Invite, Allowed, IInv, TeamTypeOK, Managing, Role
<1>2. q \in Handler /\ q.pc = "invite"
  BY <1>1, BlankIsSound DEF Asked, Blank, Handler, Step, Account
<1>3. Start(r, q) /\ UNCHANGED <<member, link, access, calm>>
  BY DEF Invite
<1> HIDE DEF q
<1>4. RequestIsFresh(q)
  BY <1>2 DEF RequestIsFresh
<1>5. QED
  BY <1>2, <1>3, <1>4, BeginsOrderly

\* In a calm workload, who speaks for a role has it and is active: nobody is
\* being suspended while a request begins.
LEMMA SpeakersAreActive ==
  ASSUME IInv, Orderly, NEW a \in Emails, NEW role, Speaks(a, role), calm,
         \A t \in Requests : request[t].pc = "idle"
  PROVE  member[a].role = role /\ member[a].status = "ACTIVE"
<1>1. PICK s \in SessionRows :
        access[s] = [user |-> a, role |-> role, state |-> "live"]
  BY DEF Speaks
<1>2. access[s].user = a /\ access[s].state = "live"
  BY <1>1
<1>3. member[a].status = "ACTIVE"
  BY <1>2 DEF Orderly, LiveIsActive
<1>4. QED
  BY <1>3 DEF Speaks

LEMMA UpdateMemberOrderly ==
  ASSUME IInv, Orderly, NEW r \in Requests, NEW a \in Emails,
         NEW role \in Managing, NEW e \in Emails, NEW granted,
         NEW status \in {"none", "ACTIVE", "SUSPENDED"},
         UpdateMember(r, a, role, e, granted, status)
  PROVE  Orderly'
<1> DEFINE q == [Asked(a, role) EXCEPT !.pc = "update", !.user = e,
                                       !.role = granted, !.status = status]
<1>1. member[a] \in Account /\ role \in Role /\ granted \in Role \cup {NULL}
  BY DEF UpdateMember, Allowed, IInv, TeamTypeOK, Managing, Role
<1>2. q \in Handler
  BY <1>1, BlankIsSound DEF Asked, Blank, Handler, Step, Status, Account
<1>3. q.pc = "update" /\ q.user = e /\ q.actor = a /\ q.status = status
  BY DEF Asked, Blank
<1>4. Start(r, q) /\ UNCHANGED <<member, link, access, calm>>
  BY DEF UpdateMember
<1> HIDE DEF q
<1>5. calm => \A t \in Requests : request[t].pc = "idle"
  BY <1>4 DEF Start
<1>6. calm => member[a].role = role /\ member[a].status = "ACTIVE"
  BY <1>5, SpeakersAreActive DEF UpdateMember
<1>7. RequestIsFresh(q)
  BY <1>3, <1>6 DEF RequestIsFresh, UpdateMember
<1>8. QED
  BY <1>2, <1>4, <1>7, BeginsOrderly

LEMMA FailOrderly ==
  ASSUME IInv, Orderly, NEW r \in Requests, Fail(r)
  PROVE  Orderly'
<1>1. Blank \in Handler /\ Goto(r, Blank) /\ ~calm /\ calm' = calm
  BY BlankIsSound DEF Fail, End
<1>2. RequestIsFresh(Blank)'
  BY BlankIsSound DEF RequestIsFresh
<1>3. OneByOne' /\ \A t \in Requests : RequestIsFresh(request[t])'
  BY <1>1, <1>2, FreshMoves DEF Fail, Exists
<1>4. QED
  BY <1>1, <1>3 DEF Orderly, LiveIsActive, SomebodyManages, InvitedHasInvitation

\* A handler writes and moves on to a step that needs nothing fresh.
LEMMA WritesOrderly ==
  ASSUME IInv, Orderly, NEW r \in Requests, request[r].pc # "idle",
         NEW q \in Handler, Goto(r, q), q.pc \in {"idle", "mail", "evict"},
         calm' = calm,
         \A e \in Emails : Exists(e) =>
           member'[e].status # "none" /\ member'[e].org = member[e].org,
         \A l \in Links : link[l].state # "none" =>
           link'[l].user = link[l].user /\ link'[l].kind = link[l].kind
  PROVE  OneByOne' /\ \A t \in Requests : RequestIsFresh(request[t])'
<1>1. RequestIsFresh(q)'
  BY DEF RequestIsFresh
<1>2. QED
  BY <1>1, Undisturbed, FreshMoves

\* A new account, that is followed by a mail.
LEMMA JoiningOrderly ==
  ASSUME IInv, Orderly, NEW r \in Requests, NEW q \in Handler,
         request[r].pc \in {"signup", "invite"}, Goto(r, q), q.pc = "mail",
         NEW new \in Account, new.status # "none",
         NEW u \in Emails, ~Exists(u), member' = [member EXCEPT ![u] = new],
         \/ new.role = "ADMIN" /\ new.status = "PENDING_VERIFICATION"
         \/ \E e \in Emails : Exists(e) /\ member[e].org = new.org,
         new.status = "INVITED" => q.kind = "invite" /\ q.user = u,
         UNCHANGED <<link, access, calm>>
  PROVE  Orderly'
<1>1. /\ member'[u] = new
      /\ \A e \in Emails \ {u} : member'[e] = member[e]
  BY DEF IInv, TeamTypeOK
<1>2. /\ request'[r] = q
      /\ \A t \in Requests \ {r} : request'[t] = request[t]
  BY DEF Goto, IInv, TeamTypeOK
<1>3. OneByOne' /\ \A t \in Requests : RequestIsFresh(request[t])'
  BY <1>1, WritesOrderly DEF Exists
<1>4. LiveIsActive'
  <2>1. \A s \in SessionRows : access[s].state = "live" =>
          access[s].user \in Emails /\ access[s].user # u
    BY DEF IInv, Sound, AccessIsSound, Usable, Known
  <2> QED
    BY <1>1, <2>1, StillActive
<1>5. SomebodyManages'
  <2> DEFINE Manages(m) == /\ m.role \in Managing
                           /\ m.status \in {"PENDING_VERIFICATION", "ACTIVE"}
  <2>1. ASSUME calm, NEW e \in Emails, Exists(e)
        PROVE  \E m \in Emails : member'[m].org = member[e].org /\ Manages(member'[m])
    <3>1. PICK m \in Emails : member[m].org = member[e].org /\ Manages(member[m])
      BY <2>1 DEF Orderly, SomebodyManages
    <3>2. m # u
      BY <3>1 DEF Exists
    <3> QED
      BY <1>1, <3>1, <3>2
  <2>2. calm => \E m \in Emails : member'[m].org = new.org /\ Manages(member'[m])
    <3>1. CASE new.role = "ADMIN" /\ new.status = "PENDING_VERIFICATION"
      BY <1>1, <3>1 DEF Managing
    <3>2. CASE \E e \in Emails : Exists(e) /\ member[e].org = new.org
      BY <2>1, <3>2
    <3> QED
      BY <3>1, <3>2
  <2>3. ASSUME calm, NEW e \in Emails, member'[e].status # "none"
        PROVE  \E m \in Emails : member'[m].org = member'[e].org /\ Manages(member'[m])
    <3>1. CASE e = u
      BY <1>1, <2>2, <2>3, <3>1
    <3>2. CASE e # u
      BY <1>1, <2>1, <2>3, <3>2 DEF Exists
    <3> QED
      BY <3>1, <3>2
  <2> QED
    BY <2>3 DEF SomebodyManages, Exists
<1>6. InvitedHasInvitation'
  <2>1. ASSUME calm, NEW e \in Emails, member'[e].status = "INVITED"
        PROVE  \/ \E t \in Requests : /\ request'[t].pc = "mail" /\ request'[t].user = e
                                      /\ request'[t].kind = "invite"
               \/ \E l \in Links : /\ link[l].kind = "invite" /\ link[l].user = e
                                   /\ link[l].state \in {"mailed", "lost", "lapsed"}
    <3>1. CASE e = u
      BY <1>1, <1>2, <2>1, <3>1
    <3>2. CASE e # u
      BY <1>1, <1>2, <2>1, <3>2 DEF Orderly, InvitedHasInvitation
    <3> QED
      BY <3>1, <3>2
  <2> QED
    BY <2>1 DEF InvitedHasInvitation
<1>7. QED
  BY <1>3, <1>4, <1>5, <1>6 DEF Orderly

LEMMA CommitSignupOrderly ==
  ASSUME IInv, Orderly, NEW r \in Requests, CommitSignup(r)
  PROVE  Orderly'
<1>1. PICK q \in Handler : q = request[r]
  BY DEF IInv, TeamTypeOK
<1> DEFINE new == NewMember(q.org, q.role, "PENDING_VERIFICATION", TRUE,
                            IF q.role = "ADMIN" THEN q.user ELSE NULL)
           next == [Blank EXCEPT !.pc = "mail", !.kind = "verify", !.user = q.user]
<1>2. /\ q.pc = "signup" /\ q.user \in Emails /\ ~Exists(q.user)
      /\ q.org \in Slugs /\ q.role \in {"ADMIN", "CUSTOMER"}
  BY <1>1 DEF CommitSignup, IInv, Sound, RequestIsSound
<1>3. q.role = "CUSTOMER" => \E e \in Emails : Exists(e) /\ member[e].org = q.org
  BY <1>1, <1>2 DEF Orderly, RequestIsFresh
<1>4. /\ new \in Account /\ new.status = "PENDING_VERIFICATION"
      /\ new.org = q.org /\ new.role = q.role
  BY <1>2 DEF NewMember, Account, Role, Status
<1>5. next \in Handler /\ next.pc = "mail"
  BY <1>2, BlankIsSound DEF Blank, Handler, Step
<1>6. /\ member' = [member EXCEPT ![q.user] = new] /\ Goto(r, next)
      /\ UNCHANGED <<link, access, calm>>
  BY <1>1 DEF CommitSignup
<1> HIDE DEF new, next
<1>7. QED
  BY <1>1, <1>2, <1>3, <1>4, <1>5, <1>6, JoiningOrderly

LEMMA CommitInviteOrderly ==
  ASSUME IInv, Orderly, NEW r \in Requests, CommitInvite(r)
  PROVE  Orderly'
<1>1. PICK q \in Handler : q = request[r]
  BY DEF IInv, TeamTypeOK
<1> DEFINE new == NewMember(q.org, q.role, "INVITED", FALSE, q.actor)
           next == [Blank EXCEPT !.pc = "mail", !.kind = "invite", !.user = q.user]
<1>2. RequestIsSound(q) /\ q.pc = "invite" /\ ~Exists(q.user)
  BY <1>1 DEF CommitInvite, IInv, Sound
<1>3. /\ q.user \in Emails /\ q.actor \in Emails /\ Exists(q.actor)
      /\ q.org = member[q.actor].org /\ q.role \in Role
  BY <1>2 DEF RequestIsSound, Known
<1>4. new \in Account /\ new.status = "INVITED" /\ new.org = q.org
  BY <1>3 DEF NewMember, Account, Status, Handler
<1>5. /\ next \in Handler /\ next.pc = "mail" /\ next.kind = "invite"
      /\ next.user = q.user
  BY <1>3, BlankIsSound DEF Blank, Handler, Step
<1>6. /\ member' = [member EXCEPT ![q.user] = new] /\ Goto(r, next)
      /\ UNCHANGED <<link, access, calm>>
  BY <1>1 DEF CommitInvite
<1> HIDE DEF new, next
<1>7. QED
  BY <1>1, <1>2, <1>3, <1>4, <1>5, <1>6, JoiningOrderly

LEMMA MailOrderly ==
  ASSUME IInv, Orderly, NEW r \in Requests, Mail(r)
  PROVE  Orderly'
<1>1. PICK q \in Handler : q = request[r]
  BY DEF IInv, TeamTypeOK
<1> DEFINE made(state) == [kind |-> q.kind, user |-> q.user, state |-> state]
           l == Unused(link)
<1>2. /\ q.pc = "mail" /\ link[l].state = "none"
      /\ \E state \in {"mailed", "lost"} : link' = [link EXCEPT ![l] = made(state)]
      /\ End(r) /\ UNCHANGED <<member, access, calm>>
  BY <1>1 DEF Mail
<1>3. l \in Links
  <2>1. \E k \in DOMAIN link : \/ link[k].state = "none"
                               \/ \A j \in DOMAIN link : link[j].state # "none"
    BY TeamAssumption DEF IInv, TeamTypeOK
  <2> QED
    BY <2>1 DEF Unused, IInv, TeamTypeOK
<1> HIDE DEF l
<1>4. PICK state \in {"mailed", "lost"} : link' = [link EXCEPT ![l] = made(state)]
  BY <1>2
<1>5. /\ link'[l] = made(state)
      /\ \A k \in Links \ {l} : link'[k] = link[k]
  BY <1>3, <1>4 DEF IInv, TeamTypeOK
<1>6. /\ \A t \in Requests \ {r} : request'[t] = request[t]
      /\ Goto(r, Blank) /\ Blank \in Handler /\ Blank.pc = "idle"
  BY <1>2, BlankIsSound DEF End, Goto, IInv, TeamTypeOK
<1>7. OneByOne' /\ \A t \in Requests : RequestIsFresh(request[t])'
  BY <1>1, <1>2, <1>5, <1>6, WritesOrderly DEF Exists
<1>8. LiveIsActive'
  BY <1>1, <1>2, <1>6, StillActive
<1>9. SomebodyManages'
  BY <1>2, StillManaged DEF Exists
<1>10. InvitedHasInvitation'
  <2>1. ASSUME calm, NEW e \in Emails, member[e].status = "INVITED"
        PROVE  \/ \E t \in Requests : /\ request'[t].pc = "mail" /\ request'[t].user = e
                                      /\ request'[t].kind = "invite"
               \/ \E k \in Links : /\ link'[k].kind = "invite" /\ link'[k].user = e
                                   /\ link'[k].state \in {"mailed", "lost", "lapsed"}
    <3>1. CASE \E t \in Requests : /\ request[t].pc = "mail" /\ request[t].user = e
                                   /\ request[t].kind = "invite"
      BY <1>1, <1>3, <1>5, <1>6, <3>1
    <3>2. CASE \E k \in Links : /\ link[k].kind = "invite" /\ link[k].user = e
                                /\ link[k].state \in {"mailed", "lost", "lapsed"}
      BY <1>2, <1>5, <3>2
    <3> QED
      BY <2>1, <3>1, <3>2 DEF Orderly, InvitedHasInvitation
  <2> QED
    BY <1>2, <2>1 DEF InvitedHasInvitation
<1>11. QED
  BY <1>7, <1>8, <1>9, <1>10 DEF Orderly

LEMMA LapseOrderly ==
  ASSUME IInv, Orderly, NEW l \in Links, Lapse(l)
  PROVE  Orderly'
<1>1. /\ link[l] \in Token /\ link[l].state = "mailed"
      /\ link'[l] = [link[l] EXCEPT !.state = "lapsed"]
      /\ \A k \in Links \ {l} : link'[k] = link[k]
      /\ UNCHANGED <<member, access, request, calm>>
  BY DEF Lapse, IInv, TeamTypeOK
<1>2. \A k \in Links : /\ link'[k].kind = link[k].kind /\ link'[k].user = link[k].user
                       /\ link[k].state \in {"mailed", "lost", "lapsed"} =>
                            link'[k].state \in {"mailed", "lost", "lapsed"}
  BY <1>1 DEF Token
<1>3. ASSUME NEW t \in Requests
      PROVE  RequestIsFresh(request[t])'
  <2>1. PICK u \in Handler : u = request[t]
    BY DEF IInv, TeamTypeOK
  <2>2. RequestIsFresh(u) /\ RequestIsSound(u)
    BY <2>1 DEF Orderly, IInv, Sound
  <2>3. u.pc = "follow" => link'[u.link].user = u.user /\ link'[u.link].kind = u.kind
    BY <1>2, <2>2 DEF RequestIsFresh, RequestIsSound
  <2>4. RequestIsFresh(u)'
    BY <1>1, <2>2, <2>3 DEF RequestIsFresh, Exists
  <2> QED
    BY <1>1, <2>1, <2>4 DEF RequestIsFresh
<1>4. OneByOne' /\ LiveIsActive' /\ SomebodyManages'
  BY <1>1 DEF Orderly, OneByOne, LiveIsActive, SomebodyManages, Exists
<1>5. InvitedHasInvitation'
  BY <1>1, <1>2 DEF Orderly, InvitedHasInvitation
<1>6. QED
  BY <1>3, <1>4, <1>5 DEF Orderly

\* A link is used: its account becomes active, or the link was no invitation.
LEMMA UsingOrderly ==
  ASSUME IInv, Orderly, NEW r \in Requests, NEW q \in Handler, q = request[r],
         q.pc = "follow", link' = [link EXCEPT ![q.link].state = "consumed"],
         NEW new \in Account, member' = [member EXCEPT ![q.user] = new],
         new.org = member[q.user].org, new.role = member[q.user].role,
         \/ new.status = "ACTIVE"
         \/ new.status = member[q.user].status /\ q.kind # "invite",
         \A s \in SessionRows : /\ access'[s].user = access[s].user
                                /\ access'[s].state = "live" => access[s].state = "live",
         NEW next \in Handler, Goto(r, next), RequestIsFresh(next)', calm' = calm
  PROVE  Orderly'
<1>1. /\ Known(q.user) /\ q.user \in Emails
      /\ q.link \in Links /\ link[q.link].state # "none"
      /\ link[q.link].user = q.user /\ link[q.link].kind = q.kind
  BY Followed DEF Orderly, RequestIsFresh, Known
<1>2. /\ member'[q.user] = new
      /\ \A e \in Emails \ {q.user} : member'[e] = member[e]
  BY <1>1 DEF IInv, TeamTypeOK
<1>3. /\ \A k \in Links \ {q.link} : link'[k] = link[k]
      /\ \A k \in Links : link'[k].user = link[k].user /\ link'[k].kind = link[k].kind
  <2>1. /\ \A k \in Links \ {q.link} : link'[k] = link[k]
        /\ link'[q.link] = [link[q.link] EXCEPT !.state = "consumed"]
        /\ link[q.link] \in Token
    BY <1>1 DEF IInv, TeamTypeOK
  <2> QED
    BY <2>1 DEF Token
<1>4. \A e \in Emails : Exists(e) =>
        member'[e].status # "none" /\ member'[e].org = member[e].org
  BY <1>2 DEF Exists
<1>5. calm => \A t \in Requests \ {r} : request[t].pc = "idle"
  BY Undisturbed
<1>6. OneByOne' /\ \A t \in Requests : RequestIsFresh(request[t])'
  BY <1>3, <1>4, <1>5, FreshMoves
<1>7. LiveIsActive'
  <2>1. \A s \in SessionRows : access[s].state = "live" => access[s].user \in Emails
    BY DEF IInv, Sound, AccessIsSound, Usable, Known
  <2> QED
    BY <1>2, <2>1, StillActive
<1>8. SomebodyManages'
  BY <1>1, <1>2, StillManaged DEF Known, Exists
<1>9. InvitedHasInvitation'
  <2>1. ASSUME NEW e \in Emails, member'[e].status = "INVITED"
        PROVE  /\ member[e].status = "INVITED"
               /\ \A l \in Links :
                    /\ link[l].kind = "invite" /\ link[l].user = e
                    /\ link[l].state \in {"mailed", "lost", "lapsed"}
                    => link'[l] = link[l]
    <3>1. CASE e = q.user
      BY <1>1, <1>2, <1>3, <2>1, <3>1
    <3>2. CASE e # q.user
      BY <1>1, <1>2, <1>3, <2>1, <3>2
    <3> QED
      BY <3>1, <3>2
  <2> QED
    BY <2>1, StillInvited
<1>10. QED
  BY <1>6, <1>7, <1>8, <1>9 DEF Orderly

LEMMA AcceptInviteOrderly ==
  ASSUME IInv, Orderly, NEW r \in Requests, AcceptInvite(r)
  PROVE  Orderly'
<1>1. PICK q \in Handler : q = request[r]
  BY DEF IInv, TeamTypeOK
<1> DEFINE new == [member[q.user] EXCEPT !.password = TRUE, !.status = "ACTIVE"]
           issue == [Blank EXCEPT !.pc = "issue", !.actor = q.user,
                                  !.by = member[q.user].role]
<1>2. q.pc = "follow" /\ Known(q.user)
  BY <1>1, Followed DEF AcceptInvite
<1>3. q.user \in Emails /\ member[q.user] \in Account
  BY <1>2 DEF Known, IInv, TeamTypeOK
<1>4. /\ link' = [link EXCEPT ![q.link].state = "consumed"]
      /\ member' = [member EXCEPT ![q.user] = new]
      /\ Goto(r, issue) /\ UNCHANGED <<access, calm>>
  BY <1>1, <1>3 DEF AcceptInvite, IInv, TeamTypeOK, Account
<1>5. /\ new \in Account /\ new.status = "ACTIVE"
      /\ new.org = member[q.user].org /\ new.role = member[q.user].role
  BY <1>3 DEF Account, Status
<1>6. issue \in Handler /\ issue.pc = "issue" /\ issue.actor = q.user
  BY ZenonT(60), <1>3, BlankIsSound DEF Blank, Handler, Step, Account
<1> HIDE DEF new, issue
<1>7. PICK next \in Handler : next = issue
  BY <1>6
<1>8. member'[q.user].status = "ACTIVE"
  BY <1>3, <1>4, <1>5 DEF IInv, TeamTypeOK
<1>9. RequestIsFresh(next)'
  BY <1>6, <1>7, <1>8 DEF RequestIsFresh
<1>10. QED
  BY <1>1, <1>2, <1>4, <1>5, <1>7, <1>9, UsingOrderly

LEMMA VerifyEmailOrderly ==
  ASSUME IInv, Orderly, NEW r \in Requests, VerifyEmail(r)
  PROVE  Orderly'
<1>1. PICK q \in Handler : q = request[r]
  BY DEF IInv, TeamTypeOK
<1> DEFINE new == [member[q.user] EXCEPT !.status = "ACTIVE"]
<1>2. q.pc = "follow" /\ Known(q.user)
  BY <1>1, Followed DEF VerifyEmail
<1>3. q.user \in Emails /\ member[q.user] \in Account
  BY <1>2 DEF Known, IInv, TeamTypeOK
<1>4. /\ link' = [link EXCEPT ![q.link].state = "consumed"]
      /\ member' = [member EXCEPT ![q.user] = new]
      /\ Goto(r, Blank) /\ UNCHANGED <<access, calm>>
  BY <1>1 DEF VerifyEmail, End
<1>5. /\ new \in Account /\ new.status = "ACTIVE"
      /\ new.org = member[q.user].org /\ new.role = member[q.user].role
  BY <1>3 DEF Account, Status
<1> HIDE DEF new
<1>6. Blank \in Handler /\ RequestIsFresh(Blank)'
  BY BlankIsSound DEF RequestIsFresh
<1>7. QED
  BY <1>1, <1>2, <1>4, <1>5, <1>6, UsingOrderly

\* Who is signed out has no live session, and nobody gets one.
LEMMA SignedOutKeeps ==
  ASSUME IInv, NEW e, access' = SignedOut(e)
  PROVE  \A s \in SessionRows :
           /\ access'[s].user = access[s].user
           /\ access'[s].state = "live" => access[s].state = "live" /\ access[s].user # e
<1>1. ASSUME NEW s \in SessionRows
      PROVE  /\ access'[s].user = access[s].user
             /\ access'[s].state = "live" => access[s].state = "live" /\ access[s].user # e
  <2>1. access[s] \in Access
    BY DEF IInv, TeamTypeOK
  <2>2. access'[s] = IF access[s].user = e /\ access[s].state = "live"
                     THEN [access[s] EXCEPT !.state = "revoked"]
                     ELSE access[s]
    BY DEF SignedOut
  <2> QED
    BY <2>1, <2>2 DEF Access
<1>2. QED
  BY <1>1

LEMMA ResetPasswordOrderly ==
  ASSUME IInv, Orderly, NEW r \in Requests, ResetPassword(r)
  PROVE  Orderly'
<1>1. PICK q \in Handler : q = request[r]
  BY DEF IInv, TeamTypeOK
<1> DEFINE new == [member[q.user] EXCEPT !.password = TRUE]
<1>2. q.pc = "follow" /\ q.kind = "reset" /\ Known(q.user)
  BY <1>1, Followed DEF ResetPassword
<1>3. q.user \in Emails /\ member[q.user] \in Account
  BY <1>2 DEF Known, IInv, TeamTypeOK
<1>4. /\ link' = [link EXCEPT ![q.link].state = "consumed"]
      /\ member' = [member EXCEPT ![q.user] = new]
      /\ access' = SignedOut(q.user)
      /\ Goto(r, Blank) /\ UNCHANGED calm
  BY <1>1 DEF ResetPassword, End
<1>5. /\ new \in Account /\ new.status = member[q.user].status
      /\ new.org = member[q.user].org /\ new.role = member[q.user].role
  BY <1>3 DEF Account
<1> HIDE DEF new
<1>6. \A s \in SessionRows : /\ access'[s].user = access[s].user
                             /\ access'[s].state = "live" => access[s].state = "live"
  BY <1>4, SignedOutKeeps
<1>7. Blank \in Handler /\ RequestIsFresh(Blank)'
  BY BlankIsSound DEF RequestIsFresh
<1>8. QED
  BY <1>1, <1>2, <1>4, <1>5, <1>6, <1>7, UsingOrderly

LEMMA IssueOrderly ==
  ASSUME IInv, Orderly, NEW r \in Requests, Issue(r)
  PROVE  Orderly'
<1>1. PICK q \in Handler : q = request[r]
  BY DEF IInv, TeamTypeOK
<1> DEFINE new == [user |-> q.actor, role |-> q.by, state |-> "live"]
<1>2. /\ q.pc = "issue" /\ UNCHANGED <<member, link, calm>>
      /\ Goto(r, Blank) /\ Blank \in Handler /\ Blank.pc = "idle"
  BY <1>1, BlankIsSound DEF Issue, End
<1>3. PICK s : access' = [access EXCEPT ![s] = new]
  BY <1>1 DEF Issue
<1>4. calm => member[q.actor].status = "ACTIVE"
  BY <1>1, <1>2 DEF Orderly, RequestIsFresh
<1>5. /\ s \in SessionRows => access'[s] = new
      /\ \A k \in SessionRows \ {s} : access'[k] = access[k]
  BY <1>3 DEF IInv, TeamTypeOK
<1>6. OneByOne' /\ \A t \in Requests : RequestIsFresh(request[t])'
  BY <1>1, <1>2, WritesOrderly DEF Exists
<1>7. LiveIsActive'
  <2>1. \A t \in Requests \ {r} : request'[t] = request[t]
    BY <1>2 DEF Goto, IInv, TeamTypeOK
  <2>2. ASSUME calm, NEW k \in SessionRows, access'[k].state = "live"
        PROVE  \/ member[access'[k].user].status = "ACTIVE"
               \/ \E t \in Requests : /\ request'[t].pc = "evict"
                                      /\ request'[t].user = access'[k].user
    <3>1. CASE k = s
      BY <1>4, <1>5, <2>2, <3>1
    <3>2. CASE k # s
      BY <1>1, <1>2, <1>5, <2>1, <2>2, <3>2 DEF Orderly, LiveIsActive
    <3> QED
      BY <3>1, <3>2
  <2> QED
    BY <1>2, <2>2 DEF LiveIsActive
<1>8. SomebodyManages'
  BY <1>2, StillManaged DEF Exists
<1>9. InvitedHasInvitation'
  BY <1>1, <1>2, StillInvited
<1>10. QED
  BY <1>6, <1>7, <1>8, <1>9 DEF Orderly

LEMMA RotateOrderly ==
  ASSUME IInv, Orderly, NEW r \in Requests, Rotate(r)
  PROVE  Orderly'
<1>1. PICK q \in Handler : q = request[r]
  BY DEF IInv, TeamTypeOK
<1>2. /\ q.pc = "rotate" /\ UNCHANGED <<member, link, calm>>
      /\ Goto(r, Blank) /\ Blank \in Handler /\ Blank.pc = "idle"
      /\ access' = [access EXCEPT ![q.row].role = q.by]
  BY <1>1, BlankIsSound DEF Rotate, End
<1>3. ASSUME NEW s \in SessionRows
      PROVE  access'[s].state = access[s].state /\ access'[s].user = access[s].user
  <2>1. access[s] \in Access
    BY DEF IInv, TeamTypeOK
  <2>2. access'[s] = IF s = q.row THEN [access[s] EXCEPT !.role = q.by] ELSE access[s]
    BY <1>2 DEF IInv, TeamTypeOK
  <2> QED
    BY <2>1, <2>2 DEF Access
<1>4. OneByOne' /\ \A t \in Requests : RequestIsFresh(request[t])'
  BY <1>1, <1>2, WritesOrderly DEF Exists
<1>5. LiveIsActive'
  BY <1>1, <1>2, <1>3, StillActive
<1>6. SomebodyManages'
  BY <1>2, StillManaged DEF Exists
<1>7. InvitedHasInvitation'
  BY <1>1, <1>2, StillInvited
<1>8. QED
  BY <1>4, <1>5, <1>6, <1>7 DEF Orderly

LEMMA EvictOrderly ==
  ASSUME IInv, Orderly, NEW r \in Requests, Evict(r)
  PROVE  Orderly'
<1>1. PICK q \in Handler : q = request[r]
  BY DEF IInv, TeamTypeOK
<1>2. /\ q.pc = "evict" /\ UNCHANGED <<member, link, calm>>
      /\ Goto(r, Blank) /\ Blank \in Handler /\ Blank.pc = "idle"
      /\ access' = SignedOut(q.user)
  BY <1>1, BlankIsSound DEF Evict, End
<1>3. \A s \in SessionRows :
        /\ access'[s].user = access[s].user
        /\ access'[s].state = "live" => access[s].state = "live" /\ access[s].user # q.user
  BY <1>2, SignedOutKeeps
<1>4. OneByOne' /\ \A t \in Requests : RequestIsFresh(request[t])'
  BY <1>1, <1>2, WritesOrderly DEF Exists
<1>5. LiveIsActive'
  <2>1. \A t \in Requests \ {r} : request'[t] = request[t]
    BY <1>2 DEF Goto, IInv, TeamTypeOK
  <2>2. ASSUME calm, NEW s \in SessionRows, access'[s].state = "live"
        PROVE  \/ member[access'[s].user].status = "ACTIVE"
               \/ \E t \in Requests : /\ request'[t].pc = "evict"
                                      /\ request'[t].user = access'[s].user
    BY <1>1, <1>3, <2>1, <2>2 DEF Orderly, LiveIsActive
  <2> QED
    BY <1>2, <2>2 DEF LiveIsActive
<1>6. SomebodyManages'
  BY <1>2, StillManaged DEF Exists
<1>7. InvitedHasInvitation'
  BY <1>1, <1>2, StillInvited
<1>8. QED
  BY <1>4, <1>5, <1>6, <1>7 DEF Orderly

\* The one who changes the member is somebody who manages, and stays so.
LEMMA CommitUpdateOrderly ==
  ASSUME IInv, Orderly, NEW r \in Requests, CommitUpdate(r)
  PROVE  Orderly'
<1>1. PICK q \in Handler : q = request[r]
  BY DEF IInv, TeamTypeOK
<1> DEFINE new == Updated(member[q.user], q)
           evict == [q EXCEPT !.pc = "evict"]
<1>2. /\ q.pc = "update" /\ Known(q.user) /\ Known(q.actor)
      /\ member[q.user].org = member[q.actor].org
      /\ q.status \in {"none", "ACTIVE", "SUSPENDED"}
      /\ calm => /\ q.actor # q.user
                 /\ member[q.actor].role \in Managing
                 /\ member[q.actor].status = "ACTIVE"
  BY <1>1 DEF CommitUpdate, IInv, Sound, RequestIsSound, Orderly, RequestIsFresh
<1>3. /\ q.user \in Emails /\ member[q.user] \in Account
      /\ q.actor \in Emails /\ Exists(q.user)
  BY <1>2 DEF Known, IInv, TeamTypeOK
<1>4. /\ new.org = member[q.user].org
      /\ new.status = IF q.status = "none" THEN member[q.user].status ELSE q.status
  BY <1>3 DEF Updated, Account
<1>5. evict \in Handler /\ evict.pc = "evict" /\ evict.user = q.user
  BY DEF Handler, Step
<1>6. /\ member' = [member EXCEPT ![q.user] = new]
      /\ UNCHANGED <<link, access, calm>>
      /\ IF q.status = "SUSPENDED" THEN Goto(r, evict) ELSE Goto(r, Blank)
  BY <1>1 DEF CommitUpdate, End
<1> HIDE DEF new, evict
<1>7. PICK next \in Handler :
        /\ Goto(r, next) /\ next.pc \in {"idle", "evict"}
        /\ q.status = "SUSPENDED" => next.pc = "evict" /\ next.user = q.user
  <2>1. CASE q.status = "SUSPENDED"
    BY <1>5, <1>6, <2>1
  <2>2. CASE q.status # "SUSPENDED"
    BY <1>6, <2>2, BlankIsSound
  <2> QED
    BY <2>1, <2>2
<1>8. /\ member'[q.user] = new
      /\ \A e \in Emails \ {q.user} : member'[e] = member[e]
      /\ request'[r] = next
      /\ \A t \in Requests \ {r} : request'[t] = request[t]
  BY <1>3, <1>6, <1>7 DEF Goto, IInv, TeamTypeOK
<1>9. \A e \in Emails : /\ member'[e].org = member[e].org
                        /\ Exists(e) <=> member'[e].status # "none"
  BY <1>2, <1>3, <1>4, <1>8 DEF Exists
<1>10. OneByOne' /\ \A t \in Requests : RequestIsFresh(request[t])'
  BY <1>1, <1>2, <1>6, <1>7, <1>9, WritesOrderly
<1>11. LiveIsActive'
  <2>1. ASSUME calm, NEW s \in SessionRows, access[s].state = "live"
        PROVE  \/ member'[access[s].user].status = "ACTIVE"
               \/ \E t \in Requests : /\ request'[t].pc = "evict"
                                      /\ request'[t].user = access[s].user
    <3>1. \/ member[access[s].user].status = "ACTIVE"
          \/ \E t \in Requests : /\ request'[t].pc = "evict"
                                 /\ request'[t].user = access[s].user
      BY <1>1, <1>2, <1>8, <2>1 DEF Orderly, LiveIsActive
    <3>2. access[s].user \in Emails
      BY <2>1 DEF IInv, Sound, AccessIsSound, Usable, Known
    <3>3. CASE access[s].user # q.user
      BY <1>8, <3>1, <3>2, <3>3
    <3>4. CASE access[s].user = q.user
      BY <1>2, <1>4, <1>7, <1>8, <3>1, <3>4
    <3> QED
      BY <3>3, <3>4
  <2> QED
    BY <1>6, <2>1 DEF LiveIsActive
<1>12. SomebodyManages'
  <2>1. ASSUME calm, NEW e \in Emails, Exists(e)
        PROVE  \E u \in Emails : /\ member'[u].org = member[e].org
                                 /\ member'[u].role \in Managing
                                 /\ member'[u].status \in {"PENDING_VERIFICATION", "ACTIVE"}
    <3>1. CASE member[e].org = member[q.actor].org
      BY <1>2, <1>3, <1>8, <2>1, <3>1
    <3>2. CASE member[e].org # member[q.actor].org
      <4>1. PICK u \in Emails : /\ member[u].org = member[e].org
                                /\ member[u].role \in Managing
                                /\ member[u].status \in {"PENDING_VERIFICATION", "ACTIVE"}
        BY <2>1 DEF Orderly, SomebodyManages
      <4>2. u # q.user
        BY <1>2, <3>2, <4>1
      <4> QED
        BY <1>8, <4>1, <4>2
    <3> QED
      BY <3>1, <3>2
  <2> QED
    BY <1>6, <1>9, <2>1 DEF SomebodyManages, Exists
<1>13. InvitedHasInvitation'
  BY <1>1, <1>2, <1>4, <1>6, <1>7, <1>8, StillInvited
<1>14. QED
  BY <1>10, <1>11, <1>12, <1>13 DEF Orderly

\* Keys do not come into it.
LEMMA RestingOrderly ==
  ASSUME Orderly, UNCHANGED <<member, link, access, request, calm>>
  PROVE  Orderly'
<1>1. OneByOne' /\ LiveIsActive' /\ SomebodyManages' /\ InvitedHasInvitation'
  BY DEF Orderly, OneByOne, LiveIsActive, SomebodyManages, InvitedHasInvitation, Exists
<1>2. \A r \in Requests : RequestIsFresh(request[r])'
  BY DEF Orderly, RequestIsFresh, Exists
<1>3. QED
  BY <1>1, <1>2 DEF Orderly

LEMMA InitOrderly ==
  ASSUME TeamInit
  PROVE  Orderly
<1>1. \A r \in Requests : request[r].pc = "idle"
  BY BlankIsSound DEF TeamInit
<1>2. OneByOne /\ LiveIsActive /\ \A r \in Requests : RequestIsFresh(request[r])
  BY <1>1 DEF TeamInit, OneByOne, LiveIsActive, RequestIsFresh
<1>3. SomebodyManages /\ InvitedHasInvitation
  <2>1. CASE member = [e \in Emails |-> NoMember]
    BY <2>1 DEF NoMember, NewMember, SomebodyManages, InvitedHasInvitation, Exists
  <2>2. CASE \E ada \in Emails :
               /\ Seeded[ada] = "ADMIN"
               /\ member = [e \in Emails |->
                    IF Seeded[e] = NULL THEN NoMember
                    ELSE NewMember(Demo, Seeded[e], "ACTIVE", TRUE, ada)]
    <3>1. PICK ada \in Emails :
            /\ Seeded[ada] = "ADMIN"
            /\ member = [e \in Emails |->
                 IF Seeded[e] = NULL THEN NoMember
                 ELSE NewMember(Demo, Seeded[e], "ACTIVE", TRUE, ada)]
      BY <2>2
    <3>2. "ADMIN" # NULL
      BY TeamAssumption DEF Role
    <3>3. \A e \in Emails : \/ member[e].status = "none"
                            \/ member[e].status = "ACTIVE" /\ member[e].org = Demo
      BY <3>1 DEF NoMember, NewMember
    <3>4. /\ member[ada].role = "ADMIN" /\ member[ada].status = "ACTIVE"
          /\ member[ada].org = Demo
      BY <3>1, <3>2 DEF NewMember
    <3> QED
      BY <3>3, <3>4 DEF SomebodyManages, InvitedHasInvitation, Exists, Managing
  <2> QED
    BY <2>1, <2>2 DEF TeamInit
<1>4. QED
  BY <1>2, <1>3 DEF Orderly

LEMMA NextOrderly ==
  ASSUME IInv, Orderly, [TeamNext]_teamVars
  PROVE  Orderly'
<1>1. ASSUME NEW r \in Requests, Handle(r)
      PROVE  Orderly'
  <2>1. CASE \E e \in Emails, o \in Slugs : Signup(r, e, o)
    BY <2>1, SignupOrderly
  <2>2. CASE \E e \in Emails, kind \in {"verify", "reset"} : AskForLink(r, e, kind)
    BY <2>2, AskForLinkOrderly
  <2>3. CASE \E l \in Links : Follow(r, l)
    BY <2>3, FollowOrderly
  <2>4. CASE \E e \in Emails : Login(r, e)
    BY <2>4, LoginOrderly
  <2>5. CASE \E s \in SessionRows : Refresh(r, s)
    BY <2>5, RefreshOrderly
  <2>6. CASE \E a \in Emails, e \in Emails, role \in Managing :
               \E granted \in Grants : Invite(r, a, role, e, granted)
    BY <2>6, InviteOrderly
  <2>7. CASE \E a \in Emails, e \in Emails, role \in Managing :
               \E granted \in Grants \cup {NULL},
                  status \in {"none", "ACTIVE", "SUSPENDED"} :
                 UpdateMember(r, a, role, e, granted, status)
    BY <2>7, UpdateMemberOrderly
  <2>8. CASE CommitSignup(r) \/ CommitInvite(r) \/ Mail(r)
    BY <2>8, CommitSignupOrderly, CommitInviteOrderly, MailOrderly
  <2>9. CASE Issue(r) \/ Rotate(r)
    BY <2>9, IssueOrderly, RotateOrderly
  <2>10. CASE AcceptInvite(r) \/ VerifyEmail(r) \/ ResetPassword(r)
    BY <2>10, AcceptInviteOrderly, VerifyEmailOrderly, ResetPasswordOrderly
  <2>11. CASE CommitUpdate(r) \/ Evict(r) \/ Fail(r)
    BY <2>11, CommitUpdateOrderly, EvictOrderly, FailOrderly
  <2>12. QED
    BY <1>1, <2>1, <2>2, <2>3, <2>4, <2>5, <2>6, <2>7, <2>8, <2>9, <2>10, <2>11
       DEF Handle
<1>2. CASE \E l \in Links : Lapse(l)
  BY <1>2, LapseOrderly
<1>3. CASE \/ \E e \in Emails : CreateKey(e)
           \/ \E a \in Emails, e \in Emails : RemoveKey(a, e)
  BY <1>3, RestingOrderly DEF CreateKey, RemoveKey
<1>4. CASE UNCHANGED teamVars
  BY <1>4, RestingOrderly DEF teamVars
<1>5. QED
  BY <1>1, <1>2, <1>3, <1>4 DEF TeamNext

\* The inductive invariant of calm workloads, which needs the other one.
THEOREM Order == TeamSpec => []Orderly
<1>1. TeamInit => Orderly
  BY InitOrderly
<1>2. IInv /\ Orderly /\ [TeamNext]_teamVars => Orderly'
  BY NextOrderly
<1>3. QED
  BY <1>1, <1>2, Invariance, PTL DEF TeamSpec

\* One request after the other: whoever demotes or suspends a member manages,
\* and does not change himself, so somebody is left who can manage.
THEOREM ManagersRemain == TeamSpec => []SomebodyManages
<1>1. Orderly => SomebodyManages
  BY DEF Orderly
<1>2. QED
  BY <1>1, Order, PTL

\* An account that waits for its invitation has one, and no account without a
\* password has a session: there is no other way in.
THEOREM InvitationIsUsed == TeamSpec => []InvitationIsTheWayIn
<1>1. Orderly => InvitedHasInvitation
  BY DEF Orderly
<1>2. InvitedHasInvitation /\ PasswordBeforeSession => InvitationIsTheWayIn
  BY DEF InvitationIsTheWayIn
<1>3. QED
  BY <1>1, <1>2, Order, PasswordFirst, PTL

=============================================================================
