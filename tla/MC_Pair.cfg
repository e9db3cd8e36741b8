SPECIFICATION Spec
CONSTANTS
  a = a
  b = b
  c = c
  other = other
  ip1 = ip1
  u1 = u1
  u2 = u2
  Name = {a, b, c, other}
  Allowed = {a, b, c}
  Ip = {ip1, ip2}
  Token = {t1, t2, t3}
  Uri = {u1, u2}
  NoName = NoName
  NoIp = NoIp
  TornIp = TornIp
  NoToken = NoToken
  NoUri = NoUri
  DevMax = 2
  UriMax = 1
  Addresses <- OneMoves
  Offers <- OwnUri
  QueueMax = 1
  MaxGets = 2
  SendFails = TRUE
INVARIANTS TypeOK NamesUnique OwnUris
PROPERTY QueuedIsPaired
