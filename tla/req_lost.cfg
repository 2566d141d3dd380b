SPECIFICATION Spec
CONSTANTS
  own = own
  own2 = own2
  req = req
  req2 = req2
  Sessions = {own, req}
  Owner = Owner
  Users = {u1}
  UserOf <- OneUser
  Commands <- Deciding
  MaxLines = 4
  MaxAcl = 2
  MaxRequests = 4
INVARIANTS
  RequestsAreStored
CHECK_DEADLOCK FALSE
