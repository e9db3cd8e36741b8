SPECIFICATION ObsSpec
CONSTANTS
  u1 = u1
  u2 = u2
  Peer = light
  Name = {light}
  Allowed = {light}
  PeerIp = {ipL}
  Ip = {ipL}
  Me = button
  MyIp = {ip1}
  Elsewhere = ipX
  Token = {t1, t2, t3, t4, t5, t6}
  Uri = {u1, u2}
  NoName = NoName
  NoIp = NoIp
  TornIp = TornIp
  NoToken = NoToken
  NoUri = NoUri
  DevMax = 1
  UriMax = 2
  Addresses <- AnyAddress
  Offers <- TwoUris
  QueueMax = 1
  MaxGets = 2
  SendFails = FALSE
  Preempt = FALSE
  NetMax = 2
  MaxAnnounce = 1
  MaxRestart = 1
  MaxMove = 0
  MaxLost = 1
INVARIANT EventsFindTheirUri
PROPERTY EventuallySubscribed
CHECK_DEADLOCK FALSE
