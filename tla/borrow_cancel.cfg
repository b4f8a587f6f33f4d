SPECIFICATION Spec
CONSTANTS
  r1 = r1  r2 = r2  u1 = u1  u2 = u2
  user = user  leader = leader  chief = chief
  Request = {r1, r2}
  Owner <- OwnedByUser
  Purpose <- ForWork
  From <- FirstFrom
  To <- FirstTo
  Quantity <- BothAndOne
  Person = {user, leader}
  Leader = {leader}
  Admin = {}
  Unit = {u1, u2}
  ModelOf <- OneModel
  Model = {1}
  Buffer <- BufferOfOne
  Copy = {1, 2}
  Txn = {t1, t2}
  Kind = {"create", "decide", "cancel", "assign", "handover", "return", "inspect"}
  MaxTime = 2
  Apart = {}
  NoTxn = NoTxn  NoUnit = NoUnit  NoRequest = NoRequest  NoPerson = NoPerson

INVARIANT AlwaysTracked
CHECK_DEADLOCK FALSE
