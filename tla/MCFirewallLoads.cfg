SPECIFICATION Spec
CONSTANTS
  wan0 = wan0
  lan0 = lan0
  guest0 = guest0
  vpn1 = vpn1
  vpn2 = vpn2
  g1 = g1
  g2 = g2
  d1 = d1
  None = None
  Iface = {wan0, lan0, guest0, vpn1, vpn2}
  Wan = wan0
  Gateway = {"default", g1, g2}
  Mac = {d1}
  Config <- Households
INVARIANT RulesetLoads
