CONSTANTS
 World = World
 MapThreads = {t1, t2}
 Kinds = {"enum", "login", "cancel", "trade", "logout", "move", "area", "ack"}
 MaxPackets = 3
 Cap = 1
 Places = {field, instance}
 NoPlace = NoPlace
 NoPacket = NoPacket
 NoUpdate = NoUpdate
 BaseMaps = {field, dungeon}
 Instances <- MCInstances
 NoMap = NoMap
 field = field
 dungeon = dungeon
 instance = instance
SPECIFICATION MCSpec
INVARIANTS ThreadsApart
PROPERTIES InOrderInPlace WaitIsBarrier LoginTaken StopEnds
CHECK_DEADLOCK FALSE
