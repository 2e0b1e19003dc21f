SPECIFICATION Spec
CONSTANTS
  a = a
  b = b
  Tenant <- TwoTenants
  MaxDepth = 3
  MaxWork = 1
  MaxRows = 2
  SharedDevice = FALSE
CHECK_DEADLOCK FALSE
INVARIANT NeverTheWrongSetting
