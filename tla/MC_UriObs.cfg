SPECIFICATION Spec
CONSTANTS
  Name = {n1, n2, n3}
  LongName = LongName
  Garbled = Garbled
  Ip = {ip1, ip2}
  Token = {t1, t2}
  Uri = {u1, u2}
  NoName = NoName
  NoIp = NoIp
  NoToken = NoToken
  NoUri = NoUri
  DevMax = 2
  UriMax = 2
INVARIANTS TypeOK NamesUnique UrisUnique FreeIsClean TakenIffSubscribed
PROPERTIES AcceptedIsStored ImplementsRegistry
SYMMETRY Perms
