CONSTANTS
  Configs <- All
  Kinds = {"query", "escape", "denied", "sync", "terminate"}
  Arrivals = {"whole", "body", "size"}
SPECIFICATION FairSpec
INVARIANTS TypeOK ForwardedWasValid StreamIsWhole DatabaseAnswersInOrder
PROPERTIES EveryMessageAnswered GoroutinesEnd
