SPECIFICATION FairSpec
CONSTANTS
  r1 = r1
  r2 = r2
  gamehost = gamehost
  Requests = {r1, r2}
  Hosts = {gamehost}
  Numbers = {65536, 65537}
  NoNumber = NoNumber
  Null = Null
INVARIANTS
  TypeOK
  LockIsOwned
PROPERTIES
  IsOneCaller
  GameIsKept
  Answered
  StopEnds
