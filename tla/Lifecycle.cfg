SPECIFICATION Spec
CONSTANTS
  o1 = o1
  o2 = o2
  o3 = o3
  r1 = r1
  r2 = r2
  Objects = {o1, o2, o3}
  Requests = {r1, r2}
  MaxLeaked = 2
  Null = Null
  MayFail = {"enet", "winsock", "daemon"}
  IgnoresFailure = FALSE
  KeepsImage = FALSE
SYMMETRY LifecycleSymmetry
INVARIANTS
  TypeOK
  
  UsersAreSafe
  UnloadsClean
  ENetIsBalanced
