SPECIFICATION Spec
CONSTANTS
  Callers = {"c1", "c2"}
  Processes = {"ui"}
  ProcessOf <- OneProcess
  Images = {"a1", "a2", "b1"}
  Lines = {"a", "b"}
  LineOf <- MCLineOf
  NewerOf <- MCNewerOf
  Installed = "a1"
  Pin = "a1"
  Events = {}
  MaxOps = 3
  None = None
INVARIANTS EngineFitsData Consistent
PROPERTIES AbortUndoes
CHECK_DEADLOCK FALSE
