SPECIFICATION FairSpec
CONSTANTS
  o1 = o1
  o2 = o2
  Others = {o1, o2}
  Version <- OurVersion
  Minimum <- OurMinimum
  Versions <- ServerVersions
  MayFail = {"server", "move", "id", "identity"}
  MaxUpdates = 3
INVARIANTS
  TypeOK
  VersionsAgree
  
  
PROPERTIES
  
  
  DialogueEnds
