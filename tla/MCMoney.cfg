SPECIFICATION Spec
CONSTANTS
  Services = {"py", "dotnet", "java", "kotlin", "rust", "go", "node"}
  Quantity = {4, 500, 1005, 1150, 2333}
  UnitAmount = {0, 5, 100, 1990, 1995}
  Tax = {4, 5, 1230}
INVARIANTS
  TotalsAgree
  ServicesAgree
