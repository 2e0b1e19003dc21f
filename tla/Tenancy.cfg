SPECIFICATION Spec
CONSTANTS
  a = a
  b = b
  Tenant <- TwoTenants
  MaxDepth = 3
  MaxWork = 1
  MaxRows = 2
  SharedDevice = FALSE
SYMMETRY Swap
CHECK_DEADLOCK FALSE
INVARIANTS
  ReadsAreTheTenants
  TextStaysInTenant
PROPERTIES
  WritesStayInTenant
\* These hold with the same constants: TypeOK ReadsStayInTenant
