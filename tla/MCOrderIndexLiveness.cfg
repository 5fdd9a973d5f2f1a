SPECIFICATION Spec
CONSTANTS
  Refs = {NullRef, r1, r2, r3}
  NullRef = NullRef
  Orders = {o1, o2}
  NoOrder = NoOrder
  kInitial = 4
  HashRange = 4
PROPERTIES ImplementsMap CallsReturn
