SPECIFICATION MCSpec
CONSTANTS
  MaxIn = 1
  MaxRoom = 1
  Objects <- MCObjects
  LastFd = 3
  Programs <- MCPrograms
  MaxHops = 3
  Callers = {1, 2}
  Services = {"a", "b"}
  MaxObjects = 3
  Uses <- MCUses
  Contexts = {"io", "pool", "system"}
  Pools = {"pool", "system"}
  System = "system"
  Variables = {"v", "w"}
  MaxImpls = 2
  MaxHandlers = 1
PROPERTY AsyncUnaffected
CHECK_DEADLOCK FALSE
