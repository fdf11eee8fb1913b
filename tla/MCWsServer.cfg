CONSTANTS
  s1 = s1
  s2 = s2
  t1 = t1
  i1 = i1
  Sockets = {s1, s2}
  Tokens = {t1}
  TokenOf <- OneToken
  Ips = {i1}
  IpOf <- OneIp
  MaxTotal = 2
  MaxPerIp = 1
  MaxRate = 2
  MaxInflight = 1
  MaxUpgrades = 4
  MaxFrames = 3
SPECIFICATION FairSpec
INVARIANTS CountersExact RevokedStaysOut
PROPERTY HalfOpenReaped
CHECK_DEADLOCK FALSE
