SPECIFICATION LinksSpec
CONSTANTS
  Task = {t1, t2}
  u1 = u1
  u2 = u2
  u3 = u3
  Url = {u1, u2, u3}
  VideoOf <- MCVideoOf
  LinkId = {i1, i2}
  Take = {1, 2}
  Request = {r1, r2}
  NoTask = NoTask
  NoUrl = NoUrl
  NoStats = NoStats
  NoLink = NoLink
  MaxAttempts = 2
  MaxOps = 3
SYMMETRY LinksSymmetry
CHECK_DEADLOCK FALSE
INVARIANTS
  LinksTypeOK
  OncePerTask
  StatsMatchUrl
PROPERTIES
  LinksHaveOwners
  SaveKeepsStats
  WritesAreAtomic
