SPECIFICATION Spec
CONSTANTS
  d1 = d1
  r1 = r1
  Device = {d1}
  Rule = {r1}
  Absent = Absent
  NoConfig = NoConfig
  Closed = Closed
  MaxCommits = 1
  Crashes = FALSE
PROPERTY RollbackRestores
