SPECIFICATION AccountsSpec
CONSTANTS
  u1 = u1
  u2 = u2
  e1 = e1
  e2 = e2
  r1 = r1
  r2 = r2
  Users = {u1, u2}
  Emails = {e1, e2}
  wx = wx
  WeChat = wx
  Requests = {r1, r2}
  None = None
  MaxSessions = 2
  MaxRequests = 5
SYMMETRY AccountSymmetry
INVARIANTS
  AccountsConsistent
  NobodyEntersDeleted
  TokensKeepTheirAccount
PROPERTIES
  PasswordsKept
CHECK_DEADLOCK FALSE
