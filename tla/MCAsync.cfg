CONSTANTS
  Resolvers = {r1}
  MaxAsyncs = 3
SPECIFICATION FairSpec
CHECK_DEADLOCK FALSE
INVARIANTS
  AsyncSound
  AnswersOwn
PROPERTIES
  LookupsAnswered
