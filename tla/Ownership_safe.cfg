SPECIFICATION Spec
CONSTANTS
  Apps = {a1}
  Users = {u1, u2, u3}
  Rows = {k1, k2, k3}
  Requests = {r1, r2}
  Limit = 1
  None = None
SYMMETRY Symmetry
INVARIANTS
  TypeOK
  
  NobodyStuck
PROPERTIES
  
  AcceptedOfferStands
