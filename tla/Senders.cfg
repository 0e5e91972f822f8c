CONSTANTS
  d1 = d1
  d2 = d2
  e1 = e1
  p1 = p1
  Domains <- TwoDomains
  Emails <- OneEmail
  DomainOf <- OnSubdomain
  ParentOf <- Parents
  ReturnPaths <- OnePath
  MaxEntities = 3
  MaxKeys = 4
SPECIFICATION Spec
INVARIANT KeysSound
PROPERTY StaysAuthorized
CHECK_DEADLOCK FALSE
