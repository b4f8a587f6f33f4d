SPECIFICATION Spec
CONSTANTS
  r1 = r1  r2 = r2  u1 = u1  u2 = u2
  user = user  leader = leader  chief = chief
  Request = {r1, r2}
  Owner <- OwnedByUser
  Purpose <- FirstForMyself
  From <- FirstFrom
  To <- FirstTo
  Quantity <- OneOfEach
  Person = {user, leader, chief}
  Leader = {leader, chief}
  Admin = {chief}
  Unit = {u1, u2}
  ModelOf <- TwoModels
  Model = {1, 2}
  Buffer <- BufferOfOne
  Copy = {1}
  Txn = {t1, t2}
  Kind = {"create", "decide", "cancel", "assign"}
  MaxTime = 0
  Apart = {}
  NoTxn = NoTxn  NoUnit = NoUnit  NoRequest = NoRequest  NoPerson = NoPerson
SYMMETRY TxnSymmetry
INVARIANTS SignedAsPlanned SignatureMissing NoCircularWait
CHECK_DEADLOCK FALSE
