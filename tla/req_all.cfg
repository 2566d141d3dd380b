SPECIFICATION Spec
CONSTANTS
  own = own
  own2 = own2
  req = req
  req2 = req2
  Sessions = {own, own2, req, req2}
  Owner = Owner
  Users = {u1, u2}
  UserOf <- TwoUsers
  Commands <- All
  MaxLines = 2
  MaxAcl = 1
  MaxRequests = 4
INVARIANTS
  TypeOK
  AccessWasAsked
CHECK_DEADLOCK FALSE
