SPECIFICATION Spec
CONSTANTS
  Refs = {NullRef, r1, r2, r3, r4}
  NullRef = NullRef
  Orders = {o1}
  NoOrder = NoOrder
  kInitial = 4
  HashRange = 8
SYMMETRY RefSymmetry
INVARIANTS TypeOK TableSound
