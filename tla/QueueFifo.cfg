SPECIFICATION Spec
CONSTANTS
  Size = 3
  Value = {0, 1}
INVARIANTS
  CountsAgree
PROPERTIES
  ImplementsQueue
