CONSTANTS
  Names <- AllNames
  Kind <- KindOf
  Url <- UrlOf
  Runtimes = {"browser"}
  Servers <- OnlyTypical
  Intact <- AllOrNone
  AllSettings <- TypicalSettings
  Configs = 2
  ConfigOf <- TwoConfigs
  Modes = {"read", "probe", "write", "append"}
  PagedModes = {"read", "probe"}
  Aliases <- SomeAliases
  RemoteBytes <- Bytes
  MaxFiles = 2
  MaxHandles = 2
  MaxOs = 2
SPECIFICATION Spec
INVARIANT
  PinnedStaysRegistered
