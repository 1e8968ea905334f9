CONSTANTS
  Configs <- JustGuarded
  Kinds = {"query", "terminate"}
  Arrivals = {"whole", "body"}
SPECIFICATION Spec
INVARIANT OnlyGoodbyeEnds
