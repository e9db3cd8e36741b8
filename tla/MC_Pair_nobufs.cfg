SPECIFICATION Spec
CONSTANTS
  a = a
  b = b
  c = c
  other = other
  ip1 = ip1
  u1 = u1
  u2 = u2
  Name = {a}
  Allowed = {a}
  Ip = {ip1}
  Token = {t1, t2, t3}
  Uri = {u1, u2}
  NoName = NoName
  NoIp = NoIp
  TornIp = TornIp
  NoToken = NoToken
  NoUri = NoUri
  DevMax = 1
  UriMax = 2
  Addresses <- AnyAddress
  Offers <- TwoUris
  QueueMax = 1
  MaxGets = 1
  SendFails = TRUE
INVARIANT TokensUnique
