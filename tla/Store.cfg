SPECIFICATION MCSpec
CONSTANTS
  Slugs = {"a", "b"}
  NoSlug = NoSlug
  Tags = {"t", "u"}
  NoTag = NoTag
  TagLists <- MCTagLists
  Contents <- MCContents
  Paths = {"p", "q"}
  NoPath = NoPath
  Keys = {"name", "pass"}
  Values = {"v"}
  Unset = Unset
  KeyOrder <- MCKeyOrder
  Servers = {s1, s2}
  Admin = Admin
  HashOf <- MCHashOf
  Int32Max = 2
  MaxIds = 3
  MaxFaults = 1
INVARIANTS TypeOK ReadsAgree
PROPERTIES KeepsPromise RenameComplete SettingsSaved OneAdmin
CHECK_DEADLOCK FALSE
