CONSTANTS
  Main = main
  Pthreads = {w1, w2}
  Configs <- MCConfigs
  NoHttp = NoHttp
  Urls <- MCUrls
  Files = {f1}
  Handles = {h1, access}
  Uncloneable = {access}
  NoHandle = NoHandle
  Chunks <- MCChunks
  Null = Null
  Lost = Lost
  Threw = Threw
  MaxHeap = 2
  MaxMail = 3
  MaxFunctions = 2
SPECIFICATION Spec
CONSTRAINT Bounded
SYMMETRY Alike
INVARIANTS
  TypeOK
  ThreadsHaveTheirOptions
  HandlesAreLatest
  RequestsFollowOptions
  AnswersAreExact
