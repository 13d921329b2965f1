SPECIFICATION Spec
CONSTANTS
  Null = Null
  HoursPerDay = 1
  Packages <- ExportedPackages
  DATE_TIMEOUT = 1
  GATE_TIMEOUT = 2
  TEMPLATE_TIMEOUT = 2
  MaxReg = 2
  MaxDay = 3
INVARIANTS
  WithinBudget
  NeverShutOut
  CooldownServed
PROPERTIES
  GateSettles
