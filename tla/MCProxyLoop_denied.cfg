CONSTANTS
  Configs <- JustGuarded
  Kinds = {"query", "escape", "denied", "terminate"}
  Arrivals = {"whole"}
SPECIFICATION Spec
INVARIANT DeniedThenTerminated
