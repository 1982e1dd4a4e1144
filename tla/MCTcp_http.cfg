\* Two HTTP sockets and one more; see MCTcp for the scenarios.
SPECIFICATION FairSpec
CONSTANTS
  NumSockets = 3
  SeqSpace = 16
  MaxRetries = 2
  Ends = {"a", "b"}
  PortStart = 1024
  PortEnd = 1025
  NumHttp = 2
  Files <- SmallFiles
  Requests <- SmallRequests
  Asked <- Reading
  NameLength = 6
  ExtLength = 3
  InputLength = 2
  Texts <- SmallTexts
  Scenarios <- SmallScenarios
INVARIANTS
  RequestRead
  ResponseIntact
  CompleteAtEnd
  OneSocketPerEnd
  AnnouncedIntact
PROPERTIES
  StackServes
  HalfOpenEnds
