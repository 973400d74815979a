\* Four blocks with arbitrary hashes fill the allowed half of eight slots.
SPECIFICATION Spec
CONSTANTS
  Pointer = {p1, p2, p3, p4}
  Null = null
  Slots = 8
INVARIANTS Findable
PROPERTIES KeepsPromise RemoveEnds
