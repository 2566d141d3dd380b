SPECIFICATION Spec
CONSTANTS
  Sessions = {c1, c2, c3, c4}
  Users = {u1, u2, u3}
  MaxUsers = 2
SYMMETRY Symmetry
INVARIANTS
  TypeOK
  ListedOnce
  ListedAreServed
