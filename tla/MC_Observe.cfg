SPECIFICATION ObsSpec
CONSTANTS
  u1 = u1
  u2 = u2
  Peer = light
  Name = {light}
  Allowed = {light}
  PeerIp = {ipL, ipM}
  Ip = {ipL, ipM}
  Me = button
  MyIp = {ip1, ip2}
  Elsewhere = ipX
  Token = {t1, t2, t3, t4}
  Uri = {u1}
  NoName = NoName
  NoIp = NoIp
  TornIp = TornIp
  NoToken = NoToken
  NoUri = NoUri
  DevMax = 1
  UriMax = 1
  Addresses <- AnyAddress
  Offers <- OneUri
  QueueMax = 2
  MaxGets = 2
  SendFails = FALSE
  Preempt = FALSE
  NetMax = 3
  MaxAnnounce = 2
  MaxRestart = 1
  MaxMove = 1
  MaxLost = 1
INVARIANT SyncedIfOrderly
CHECK_DEADLOCK FALSE
