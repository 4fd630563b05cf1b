SPECIFICATION Spec
CONSTANTS
  i1 = i1
  r1 = r1
  r2 = r2
  r3 = r3
  owner = owner
  dev = dev
  admin = admin
  Nobody = Nobody
  Issues = {i1}
  Users = {owner, admin}
  Admins = {admin}
  Requests = {r1, r2, r3}
  Operations = {"create", "update", "assign", "status", "comment", "delete"}
  Faults = TRUE
  OwnerOf <- OwnedBy
SYMMETRY AnyRequest
CHECK_DEADLOCK FALSE
INVARIANTS IInv AuditTrail AssigneeTold ToldUnlessReassigned
PROPERTIES BoardKept
