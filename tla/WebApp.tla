------------------------------- MODULE WebApp -------------------------------
(***************************************************************************)
(* What the web application is put together from, as tables: the hooks     *)
(* with the keys of their queries and the prefixes their mutations declare *)
(* stale, the controllers with the roles they answer and what their writes *)
(* change, and the pages with the queries they mount and the mutations     *)
(* they offer to a role.  The names of people that other answers embed are *)
(* left out.                                                               *)
(***************************************************************************)
EXTENDS Naturals, Sequences

Role == {"CUSTOMER", "AGENT", "SENIOR_AGENT", "MANAGER", "ADMIN"}
Staff == Role \ {"CUSTOMER"}
Managers == {"MANAGER", "ADMIN"}
Seniors == {"SENIOR_AGENT"} \cup Managers

Each(set, value) == [x \in set |-> value]
If(condition, set) == IF condition THEN set ELSE {}

-----------------------------------------------------------------------------
(* Hooks: the key of each query, and the prefixes a mutation's hook declares *)
(* stale once its answer is there                                            *)

Hook(keys, drops) == [keys |-> keys, drops |-> drops]

OnTicket == {"updateSubject", "updateField", "updateStatus", "reopen", "addComment",
             "assign", "escalate", "merge", "split", "tag", "untag", "rateCsat"}
Watching == {"watch", "unwatch"}
OfTickets == OnTicket \cup Watching \cup {"createTicket"}

TicketKeys == [list |-> <<"tickets", "filters">>, palette |-> <<"tickets", "search">>,
               ticket |-> <<"tickets", "id">>, history |-> <<"tickets", "id", "history">>]
UseInvalidateTicket == {<<"tickets", "id">>, <<"tickets", "id", "history">>, <<"tickets">>}
TicketDrops(m) ==
  CASE m = "createTicket" -> {<<"tickets">>}
    [] m = "updateStatus" -> {<<"tickets", "id">>, <<"tickets">>}
    [] OTHER -> UseInvalidateTicket
UseTickets == Hook(TicketKeys, [m \in OfTickets |-> TicketDrops(m)])

UseSla == Hook([slaDashboard |-> <<"sla", "dashboard">>,
                slaViolations |-> <<"sla", "violations">>,
                businessHours |-> <<"sla", "business-hours">>,
                policies |-> <<"sla", "policies">>],
               Each({"createPolicy", "updatePolicy"}, {<<"sla", "policies">>}))
UseKnowledgeBase ==
  Hook([articles |-> <<"knowledge-base", "filters">>, article |-> <<"knowledge-base", "id">>],
       [m \in {"createArticle", "updateArticle", "deleteArticle"} |->
          {<<"knowledge-base">>}
          \cup If(m = "updateArticle", {<<"knowledge-base", "id">>})])
UseNotifications == Hook([notifications |-> <<"notifications">>],
                         Each({"markRead", "markAllRead"}, {<<"notifications">>}))
UseMacros == Hook([macros |-> <<"macros">>],
                  Each({"createMacro", "deleteMacro"}, {<<"macros">>}))
UseTags == Hook([tags |-> <<"tags">>], Each({"createTag"}, {<<"tags">>}))
UseSavedFilters == Hook([savedFilters |-> <<"saved-filters">>],
                        Each({"createFilter", "deleteFilter"}, {<<"saved-filters">>}))
UseTeam == Hook([team |-> <<"team">>], Each({"invite", "updateMember"}, {<<"team">>}))
UseAgents == Hook([agents |-> <<"assignable-agents">>], Each({}, {}))
UseSessions == Hook([sessions |-> <<"sessions">>],
                    Each({"revokeSession", "logoutOthers"}, {<<"sessions">>}))
UseApiKeys == Hook([apiKeys |-> <<"api-keys">>],
                   Each({"createKey", "deleteKey"}, {<<"api-keys">>}))
UseWebhooks == Hook([webhooks |-> <<"webhooks">>],
                    Each({"createWebhook", "deleteWebhook"}, {<<"webhooks">>}))
UseOrganization == Hook([organization |-> <<"organization">>],
                        Each({"updateOrganization"}, {<<"organization">>, <<"me">>}))
UseCurrentUser == Hook([me |-> <<"me">>], Each({}, {}))
UseProfile == Hook(Each({}, {}), Each({"updateProfile", "uploadAvatar"}, {}))
UseAnalytics == Hook([analytics |-> <<"analytics", "overview">>], Each({}, {}))
UseAuditLogs == Hook([auditLogs |-> <<"audit-logs", "filters">>], Each({}, {}))
UseHealth == Hook([health |-> <<"system-health">>], Each({}, {}))

Hooks == {UseTickets, UseSla, UseKnowledgeBase, UseNotifications, UseMacros, UseTags,
          UseSavedFilters, UseTeam, UseAgents, UseSessions, UseApiKeys, UseWebhooks,
          UseOrganization, UseCurrentUser, UseProfile, UseAnalytics, UseAuditLogs,
          UseHealth}
Queries == UNION {DOMAIN hook.keys : hook \in Hooks}
Mutation == UNION {DOMAIN hook.drops : hook \in Hooks}
Key == [q \in Queries |-> (CHOOSE hook \in Hooks : q \in DOMAIN hook.keys).keys[q]]
Drops == [m \in Mutation |-> (CHOOSE hook \in Hooks : m \in DOMAIN hook.drops).drops[m]]

\* The query the answer of a mutation is put under.
Puts(m) == If(m \in DOMAIN UseProfile.drops, {"me"})

Polled == {"slaDashboard", "health"}
Retried == Queries \ {"me", "health"}

\* invalidateQueries matches every key that begins with the one it is given.
Matches(prefix, q) ==
  /\ Len(prefix) <= Len(Key[q])
  /\ SubSeq(Key[q], 1, Len(prefix)) = prefix

-----------------------------------------------------------------------------
(* Controllers: the roles a query is answered, the roles a mutation is       *)
(* granted, and the queries whose answers it changes                         *)

Api(answers, writes) == [answers |-> answers, writes |-> writes]
Write(grants, changes) == [grants |-> grants, changes |-> changes]

Lists == {"list", "palette", "slaDashboard", "slaViolations", "analytics"}
ByTheCustomerToo == {"updateSubject", "reopen", "addComment", "createTicket"} \cup Watching
TicketGrants(m) ==
  CASE m \in ByTheCustomerToo -> Role [] m = "rateCsat" -> {"CUSTOMER"} [] OTHER -> Staff
TicketChanges(m) ==
  CASE m = "createTicket" -> Lists [] m \in Watching -> {"ticket"}
    [] OTHER -> Lists \cup {"ticket", "history"}
TicketsController ==
  Api(Each(DOMAIN TicketKeys, Role),
      [m \in OfTickets |-> Write(TicketGrants(m), TicketChanges(m))])

TagsController == Api([tags |-> Role], Each({"createTag"}, Write(Staff, {"tags"})))
SlaDashboardController == Api(Each({"slaDashboard", "slaViolations"}, Seniors), Each({}, {}))
SlaPoliciesController ==
  Api([policies |-> Managers],
      Each({"createPolicy", "updatePolicy"}, Write(Managers, {"policies"})))
BusinessHoursController == Api([businessHours |-> Managers], Each({}, {}))
KnowledgeBaseController ==
  Api(Each({"articles", "article"}, Role),
      [m \in DOMAIN UseKnowledgeBase.drops |->
         Write(Staff, {"articles"} \cup If(m = "updateArticle", {"article"}))])
NotificationsController ==
  Api([notifications |-> Role],
      Each({"markRead", "markAllRead"}, Write(Role, {"notifications"})))
MacrosController ==
  Api([macros |-> Staff], Each({"createMacro", "deleteMacro"}, Write(Staff, {"macros"})))
SavedFiltersController ==
  Api([savedFilters |-> Role],
      Each({"createFilter", "deleteFilter"}, Write(Role, {"savedFilters"})))
UsersController ==
  Api([me |-> Role, team |-> Managers, agents |-> Staff],
      [invite |-> Write(Managers, {"team", "auditLogs"}),
       updateMember |-> Write(Managers, {"team", "agents", "auditLogs"}),
       updateProfile |-> Write(Role, {"me", "team", "agents"}),
       uploadAvatar |-> Write(Role, {"me", "team", "agents"})])
AuthController ==
  Api([sessions |-> Role],
      Each({"revokeSession", "logoutOthers"}, Write(Role, {"sessions"})))
ApiKeysController ==
  Api([apiKeys |-> {"ADMIN"}],
      Each({"createKey", "deleteKey"}, Write({"ADMIN"}, {"apiKeys"})))
WebhooksController ==
  Api([webhooks |-> Managers],
      Each({"createWebhook", "deleteWebhook"}, Write(Managers, {"webhooks"})))
OrganizationController ==
  Api([organization |-> Role],
      Each({"updateOrganization"}, Write({"ADMIN"}, {"organization", "me"})))
AnalyticsController == Api([analytics |-> Seniors], Each({}, {}))
AuditController == Api([auditLogs |-> {"ADMIN"}], Each({}, {}))
HealthController == Api([health |-> Role], Each({}, {}))
\* The sweep and the enrichment of a ticket are nobody's requests.
Jobs == Api(Each({}, {}), Each({"sweep", "enrich"},
                               Write({}, Lists \cup {"ticket", "history"})))

Apis == {TicketsController, TagsController, SlaDashboardController,
         SlaPoliciesController, BusinessHoursController, KnowledgeBaseController,
         NotificationsController, MacrosController, SavedFiltersController,
         UsersController, AuthController, ApiKeysController, WebhooksController,
         OrganizationController, AnalyticsController, AuditController,
         HealthController, Jobs}
Answered == [q \in Queries |-> (CHOOSE api \in Apis : q \in DOMAIN api.answers).answers[q]]
Writes == [m \in Mutation \cup DOMAIN Jobs.writes |->
             (CHOOSE api \in Apis : m \in DOMAIN api.writes).writes[m]]

\* The writes that also notify the user whose tab it is.
Notifying == {"addComment", "assign", "escalate", "sweep"}
ChangesForOthers(m) ==
  Writes[m].changes \cup If(m \in Notifying, {"notifications"})

Announcement == {"ticket:updated", "ticket:created", "notification:new"}
\* What the gateway is told to send to the organization.
Emits(m) ==
  If(m \in OnTicket \cup DOMAIN Jobs.writes, {"ticket:updated"}) \cup
  If(m \in {"createTicket", "split"}, {"ticket:created"})

\* Mutant: the tab does not listen to ticket:created.
HeardUpdatesOnly(e) ==
  CASE e = "notification:new" -> {<<"notifications">>}
    [] e = "ticket:updated" -> {<<"tickets">>, <<"sla">>}
    [] OTHER -> {}

\* SocketProvider: the prefixes an event declares stale.  The ticket page's own
\* listener, which adds a pushed comment to its query (page.tsx:81-102), is left
\* out: ticket:updated of the same request follows, and has the query refetched.
Heard(e) ==
  CASE e = "notification:new" -> {<<"notifications">>}
    [] e \in {"ticket:updated", "ticket:created"} -> {<<"tickets">>, <<"sla">>}

-----------------------------------------------------------------------------
(* Pages: the queries they mount and the mutations they offer to a role *)

Part(shows, offers) == [shows |-> shows, offers |-> offers]
Joined(parts) == Part(UNION {part.shows : part \in parts},
                      UNION {part.offers : part \in parts})

SignedIn == Part({"me"}, {})
CommandPalette == Part({"palette"}, {})
NotificationBell == Part({"notifications"}, {"markRead", "markAllRead"})
Layout == Joined({SignedIn, CommandPalette, NotificationBell})

CustomerDashboard == Part({"list", "notifications"}, {})
AgentDashboard(r) == Part({"list"} \cup If(r \in Seniors, {"slaDashboard"}), {})
ManagerDashboard == Part({"list", "slaDashboard", "slaViolations", "team"}, {})
AdminDashboard == Part({"team", "list", "health"}, {})
Dashboard(r) ==
  CASE r = "CUSTOMER" -> CustomerDashboard
    [] r \in {"AGENT", "SENIOR_AGENT"} -> AgentDashboard(r)
    [] r = "MANAGER" -> ManagerDashboard
    [] r = "ADMIN" -> AdminDashboard

SavedFiltersMenu == Part({"savedFilters"}, {"createFilter", "deleteFilter"})
KanbanBoard == Part({"list"}, {"updateStatus"})
CalendarView == Part({"list"}, {})
TicketsPage(r) ==
  Joined({Part({"list"}, {}), SavedFiltersMenu}
         \cup If(r \in Staff, {KanbanBoard, CalendarView}))

ReplyComposer == Part({"macros"}, {"addComment"})
\* Mutant: the controls are shown to whoever opens the ticket.
TicketSidebarForAll(r) ==
  Part({"agents", "tags"},
       {"updateField", "assign", "tag", "untag", "createTag"})
TicketSidebar(r) ==
  Part({"agents", "tags"},
       If(r \in Staff, {"updateField", "assign", "tag", "untag", "createTag"}))
CsatRating(r) == Part({}, If(r = "CUSTOMER", {"rateCsat"}))
EscalateDialog == Part({"agents"}, {"escalate"})
MergeDialog == Part({"list"}, {"merge"})
SplitDialog == Part({}, {"split"})
TicketDetailPage(r) ==
  Joined({Part({"ticket", "history"}, {"updateSubject", "reopen"} \cup Watching),
          ReplyComposer, TicketSidebar(r), CsatRating(r)}
         \cup If(r \in Staff, {EscalateDialog, MergeDialog, SplitDialog}))
NewTicketPage == Part({"tags"}, {"createTicket"})

KnowledgeBasePage == Part({"articles"}, {})
ArticleDetailPage(r) ==
  Part({"article"}, If(r \in Staff, {"updateArticle", "deleteArticle"}))
NewArticlePage == Part({}, {"createArticle"})
MacrosPage == Part({"macros"}, {"createMacro", "deleteMacro"})
InviteMemberDialog == Part({}, {"invite"})
TeamPage == Joined({Part({"team"}, {"updateMember"}), InviteMemberDialog})
SlaDashboardPage == Part({"slaDashboard", "slaViolations"}, {})
PolicyCard == Part({}, {"updatePolicy"})
SlaSettingsPage == Joined({Part({"businessHours", "policies"}, {}), PolicyCard})
SessionsPage == Part({"sessions"}, {"revokeSession", "logoutOthers"})
ApiKeysPage == Part({"apiKeys"}, {"createKey", "deleteKey"})
WebhooksPage == Part({"webhooks"}, {"createWebhook", "deleteWebhook"})
OrganizationSettingsPage == Part({"organization"}, {"updateOrganization"})
ProfilePage == Part({}, {"updateProfile", "uploadAvatar"})
AnalyticsPage == Part({"analytics"}, {})
AuditLogsPage == Part({"auditLogs"}, {})

Content(p, r) ==
  CASE p = "dashboard" -> Dashboard(r)
    [] p = "tickets" -> TicketsPage(r)
    [] p = "ticket" -> TicketDetailPage(r)
    [] p = "newTicket" -> NewTicketPage
    [] p = "articles" -> KnowledgeBasePage
    [] p = "article" -> ArticleDetailPage(r)
    [] p = "newArticle" -> NewArticlePage
    [] p = "macros" -> MacrosPage
    [] p = "team" -> TeamPage
    [] p = "sla" -> SlaDashboardPage
    [] p = "slaSettings" -> SlaSettingsPage
    [] p = "sessions" -> SessionsPage
    [] p = "apiKeys" -> ApiKeysPage
    [] p = "webhooks" -> WebhooksPage
    [] p = "organization" -> OrganizationSettingsPage
    [] p = "profile" -> ProfilePage
    [] p = "analytics" -> AnalyticsPage
    [] p = "auditLogs" -> AuditLogsPage
Page == {"dashboard", "tickets", "ticket", "newTicket", "articles", "article",
         "newArticle", "macros", "team", "sla", "slaSettings", "sessions",
         "apiKeys", "webhooks", "organization", "profile", "analytics",
         "auditLogs"}

\* The roles a page renders for; its queries are mounted before it looks.
Guard(p) ==
  CASE p \in {"macros", "newArticle"} -> Staff
    [] p \in {"team", "slaSettings", "webhooks"} -> Managers
    [] p \in {"sla", "analytics"} -> Seniors
    [] p \in {"apiKeys", "organization", "auditLogs"} -> {"ADMIN"}
    [] OTHER -> Role

\* Where the others are sent.
Redirect(p) ==
  CASE p = "newArticle" -> "articles" [] p = "slaSettings" -> "sla"
    [] OTHER -> "dashboard"

Shows == [p \in Page |-> [r \in Role |-> Content(p, r).shows \cup Layout.shows]]
Offers == [p \in Page |-> [r \in Role |->
             Layout.offers \cup If(r \in Guard(p), Content(p, r).offers)]]

=============================================================================
