\* The bounds of MCNotifications.cfg; a status change is expected to notify.
CONSTANTS
  u1 = u1
  u2 = u2
  t1 = t1
  t2 = t2
  t3 = t3
  Users = {u1, u2}
  Tokens = {t1, t2, t3}
  Bookings = {b1}
  Donations = {d1}
  Blocked <- MCBlocked
  Residents <- MCResidents
  Registered <- MCRegistered
  Chosen <- MCChosen
  PrefDtos <- MCPrefDtos
  MaxTokensPerCall = 2
  MaxJobs = 2
  MaxOthers = 1
  NoUser = NoUser
  Unborn = Unborn
SPECIFICATION Spec
CHECK_DEADLOCK FALSE
PROPERTY
  StatusChangeNotifies
