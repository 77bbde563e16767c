SPECIFICATION Spec
CONSTANTS
  c1 = c1  c2 = c2  u1 = u1
  Callers <- MCCallers
  Users <- MCUsers
  Ops <- MCAllOps
  NoCaller = NoCaller
  NoUser = NoUser
  MaxId = 3
  MaxCalls = 3
  MaxCrashes = 1
SYMMETRY Symmetric
INVARIANTS TablesInv FreshIndexExact PasswordsProtected
PROPERTIES IdsNeverReused DestroyedOnlyWhenApproved
CHECK_DEADLOCK FALSE
