SPECIFICATION Spec
CONSTANTS
  n1 = n1
  v1 = v1
  Node = {n1}
  NumFiles = 2
  Content = {v1}
  Truncated = Truncated
  Absent = Absent
  Local = Local
  Threshold = 2
  MaxCommands = 1
PROPERTY FailoverHappens
PROPERTY ReplicaConverges
