SPECIFICATION ObsSpec
CONSTANTS
  u1 = u1
  u2 = u2
  Peer = light
  Name = {light}
  Allowed = {light}
  PeerIp = {ipL}
  Ip = {ipL}
  Me = button
  MyIp = {ip1}
  Elsewhere = ipX
  Token = {t1, t2, t3, t4}
  Uri = {u1}
  NoName = NoName
  NoIp = NoIp
  TornIp = TornIp
  NoToken = NoToken
  NoUri = NoUri
  DevMax = 1
  UriMax = 1
  Addresses <- AnyAddress
  Offers <- OneUri
  QueueMax = 2
  MaxGets = 2
  SendFails = FALSE
  Preempt = TRUE
  NetMax = 3
  MaxAnnounce = 3
  MaxRestart = 0
  MaxMove = 0
  MaxLost = 0
INVARIANT SyncedIfOrderly
CHECK_DEADLOCK FALSE
