SPECIFICATION Spec
CONSTANTS
  Ports = {1, 2}
  Bridges = {1, 2}
  MaxAge = 6
  ForwardDelay = 4
  HelloTime = 1
  MaxLoops = 100
  Networks <- MCNetworks
  Notified <- MCNotified
  Speed = 1000
  OtherSpeed = 100
INVARIANTS TypeOK NoHang Roles Fresh LoopsEnd
PROPERTIES Handshake Converges TcQuiet
