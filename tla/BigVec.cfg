CONSTANTS
  Elements = {a, b, c}
  Capacity = 5
SPECIFICATION Spec
INVARIANTS
  RetainInvariant
PROPERTIES
  BehavesAsSequence
