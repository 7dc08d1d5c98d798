SPECIFICATION SumSpec
CONSTANTS
  ann = ann
  bob = bob
  t1 = t1
  t2 = t2
  Users = {ann, bob}
  Tabs = {t1, t2}
  UserOf <- MCUserOf
  Sockets = {s1, s2, s3}
  Gets = {k1, k2}
  NULL = NULL
  ada = ada
  mia = mia
  joe = joe
  Emails = {ada, mia, joe}
  Slugs = {acme, beta}
  Demo = acme
  Seeded <- MCSeeded
  Links = {k1, k2}
  SessionRows = {k1, k2}
  Requests = {k1, k2}
  Grants = {"MANAGER"}
  Workload = 4
SYMMETRY Symmetric
CHECK_DEADLOCK FALSE
INVARIANTS
  TeamTypeOK   NobodyIsCountedOut ShownIsTrue
  PrivilegeIsGranted SomebodyManages InvitationIsTheWayIn
