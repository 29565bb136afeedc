SPECIFICATION StdfsFairSpec
CONSTANTS
  Orders <- SomeOrders
  Packages = {i1, i2}
  Tests = 3
INVARIANTS
  Attributed
  ReportAgrees
PROPERTIES
  SuiteReports
