SPECIFICATION Spec
CONSTANTS
  Callers = {"c1", "c2"}
  Processes = {"ui", "cli"}
  ProcessOf <- TwoProcesses
  Images = {"a1", "a2", "b1"}
  Lines = {"a", "b"}
  LineOf <- MCLineOf
  NewerOf <- MCNewerOf
  Installed = "a1"
  Pin = "a1"
  Events = {}
  MaxOps = 2
  None = None
INVARIANTS DataKept
CHECK_DEADLOCK FALSE
