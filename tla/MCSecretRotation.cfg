\* Two instances, three rows of one column in pages of two, three
\* writes by requests and one failing call.
CONSTANTS
  Instances = {n1, n2}
  Rows = 3
  Fields = {"token"}
  BatchSize = 2
  MaxWrites = 3
  MaxFailures = 1
SPECIFICATION RotationSpec
INVARIANTS NothingStranded
PROPERTIES NeverReverted RotationCompletes
CHECK_DEADLOCK FALSE
