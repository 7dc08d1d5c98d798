SPECIFICATION Spec
CONSTANTS
  ann = ann
  bob = bob
  t1 = t1
  t2 = t2
  Users = {ann, bob}
  Tabs = {t1, t2}
  UserOf <- MCUserOf
  Sockets = {s1}
  Gets = {k1}
  NULL = NULL
CHECK_DEADLOCK FALSE
INVARIANT CountIsActive
