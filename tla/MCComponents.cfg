SPECIFICATION Spec
CONSTANTS
  a = a
  b = b
  x = x
  y = y
  u = u
  c1 = c1
  n1 = n1
  n2 = n2
  wan0 = wan0
  lan0 = lan0
  guest0 = guest0
  vpn1 = vpn1
  vpn2 = vpn2
  g1 = g1
  g2 = g2
  d1 = d1
  None = None
  Torn = Torn
  Absent = Absent
  Person = {a, b}
  Building = {x}
  Room = {y}
  Mac = {d1}
  Port = {u}
  MaxRequests = 2
  Edge = {g1, g2}
  Edge01 = g1
  Peer = {a, b}
  Route = {c1}
  Home = Home
  FirstSite = 3
  FirstMobile = 4
  LastOctet = 4
  HomeOctet = 2
  EdgeNode = TRUE
  Bootstrap = {a, b, x}
  Node = {n1, n2}
  JoinToken = {x}
  Admin = Admin
  Controller = n1
  Epoch = 1
  MaxRosterChanges = 2
  Worker = {n1}
  NumFiles = 2
  Contents = {x}
  Truncated = Torn
  Edited = Edited
  Threshold = 3
  MaxCommands = 2
  AlertRules <- RulesOf
  Critical = {a}
  Evaluation = {x, y}
  Channel = {c1}
  Reluctant = {c1}
  App = {a, b}
  Box = {x, y}
  Main = x
  Elsewhere = {b}
  MaxCommit = 2
  MaxChanges = 3
  Plain = {x}
  Tree = {y}
  MaxVersion = 1
  User = {a, b}
  Grouped = {b}
  Service = {x}
  Client = {y}
  CodeLife = 1
  TokenLife = 2
  MaxTime = 3
  MaxLogins = 2
  BuiltIn = Admin
  Username = {a, b, x}
  Alike <- AlikeOf
  Alias = {b}
  Member = {b}
  Password = {x}
  HardWired = {y}
  Reading = Reading
  MaxSaves = 2
  Entity = {a}
  Domain = {b}
  Names <- NamesOf
  MaxKeys = 3
  Interface = {x, y}
  Used = {"network", "wifi"}
  MaxRuns = 2
  Thread = {n1, n2}
  Conf = {x, y}
  Package = {a}
  MaxSecond = 1
  DnsName = {a}
  Forward = {b}
  FwRule = {c1}
  Bridge = {x}
  Subnet = {y}
  Link = {u}
  MaxEdits = 3
  Iface = {wan0, lan0, guest0, vpn1, vpn2}
  Wan = wan0
  Gateway = {"default", g1, g2}
  Config <- Households
  Sandbox = {a, b}
  Web = {a}
  Host = {x, y, u}
  Own = {u}
  Under <- DomainsOf
  Outside = {443, 22, 2222}
  Begins <- BeginningsOf
  Manifest <- Sources
  Choice <- Choices
INVARIANTS
  TypeOK
  ReferencesHold
  AddressesDistinct
  TokenAdmitsOnce
  EnrollmentHolds
  ContainersFollow
  RestoreAnswersTruly
  RightsExpire
  
  CertificatesUsable
  SetupKeepsHousehold
  SettingsKept
  
  BuildsConfined
PROPERTIES
  CommitChangesOnlyEdits
  CommandsInOrder
  FailoverJustified
  ResolvedWithReason
  UpdatesBackedUp
CHECK_DEADLOCK FALSE
