SPECIFICATION StdfsSpec
CONSTANTS
  Orders <- SomeOrders
  Packages = {i1, i2}
  Tests = 3
INVARIANT
  RealFailuresFail
