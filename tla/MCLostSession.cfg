SPECIFICATION FairSpec
CONSTANTS
  Socks = {s1}
  NoSock = NoSock
  BufferSize = 2
  MaxPackets = 4
PROPERTIES LostSessionDeleted
CHECK_DEADLOCK FALSE
