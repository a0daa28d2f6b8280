CONSTANTS
  Names <- AllNames
  Kind <- KindOf
  Url <- UrlOf
  Runtimes = {"browser", "node"}
  Servers <- SomeServers
  Intact <- AllOrNone
  AllSettings <- SomeSettings
  Configs = 2
  ConfigOf <- TwoConfigs
  Modes = {"read", "probe", "write", "append"}
  PagedModes = {"read", "probe"}
  Aliases <- SomeAliases
  RemoteBytes <- Bytes
  MaxFiles = 2
  MaxHandles = 2
  MaxOs = 2
SPECIFICATION Spec
CHECK_DEADLOCK FALSE
INVARIANTS
  TypeOK
  ReadsAreExact
  RequestsAreSigned
  HandlesAreLive
  DirectoriesAgree
PROPERTIES
  DroppedIsReleased
CONSTRAINT
  Bounded
