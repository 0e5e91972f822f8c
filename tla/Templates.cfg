CONSTANTS
  n1 = n1
  n2 = n2
  a = a
  c1 = c1
  ServerNames <- TwoNames
  Aliases <- OneAlias
  Fold <- Same
  Contents <- OneContent
  LayoutForms = {"alias"}
  Limit = 2
  MaxServers = 2
  MaxTemplates = 4
SPECIFICATION Spec
INVARIANT TemplatesUsable
PROPERTY PushConverges
SYMMETRY Symmetry
CHECK_DEADLOCK FALSE
