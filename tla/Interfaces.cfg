SPECIFICATION InterfaceSpec
CONSTANTS
  None = None
  Users = {"u1", "u2"}
  Tenants = {"t1", "t2"}
  MaxVersion = 1
  MaxSwitches = 2
  Members = {"m1", "m2"}
  Fields = {"email", "role"}
  Role = "role"
  Photo = "photo"
  Values = {0, 1}
  First = 0
  NoOne = NoOne
  MaxWrites = 1
  Notes = {"a"}
  Blank = ""
  MaxPins = 3
  MaxStrokes = 1
  Messages = {"x", "y"}
  Prompts = {"p"}
  NoText = ""
  MaxSteers = 2
  MaxRows = 2
  MaxAttempts = 3
  MaxPosts = 2
  MaxMounts = 2
  Elements = {"a", "b"}
  InRows = {"b"}
  WithText = {"a"}
  Placeholder = "placeholder"
  NoElement = "nothing"
  MaxScans = 2
  MaxFetches = 2
  Heights = {0, 1}
  PageFiles <- ServedFiles
  RootDirs <- ServedRoots
  NameEnds <- ServedNames
  Globs <- WaiverGlobs
  MaxServed = 2
  SourceFiles <- BoundaryFiles
  ClientFiles <- BoundaryClients
  ImportedPaths <- BoundaryPaths
  Legacy <- LegacyUses
  MaxUses = 2
INVARIANTS InterfacesInv CacheInScope FormsKeepToTheirAttempt ChromeFitsMode ToolsShowLatest
INVARIANTS ElementHeld WaiversNameThePage LayersHold
PROPERTIES EditWritesOnlyTouched NotesKept WordsArrive
CHECK_DEADLOCK FALSE
