SPECIFICATION Spec
CONSTANTS
  ann = ann
  bob = bob
  doc = doc
  s1 = s1
  s2 = s2
  None = None
  Users = {ann, bob}
  Files = {doc}
  FolderNames <- MCFolderNames
  Servers = {s1, s2}
  Slots = 2
  Home <- MCHome
  Order <- MCOrder
  OnDisk <- MCOnDisk
  Shared <- MCShared
  Flags <- MCFlags
  MaxFolders = 2
  MaxName = 3
  Room = 1
  MaxWords = 1
  Commands <- MCCommands
  MaxRequests = 4
  MaxOutages = 1
INVARIANTS
  TypeOK
  OneFolderPerName
  FilesFollowFolder
  CountsFresh
CHECK_DEADLOCK FALSE
