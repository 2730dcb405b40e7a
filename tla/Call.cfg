SPECIFICATION FairSpec
CONSTANTS
  Kinds = {"unary", "stream"}
  Items = 2
  MaxMessage = 2
  Bodies <- BodySet
INVARIANTS
    MessagesArrive
    OkMeansOk
PROPERTIES
    DeadlineEnds
CHECK_DEADLOCK FALSE
