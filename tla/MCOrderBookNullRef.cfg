SPECIFICATION Spec
CONSTANTS
  Span = 2
  NullRef = NullRef
  Refs = {NullRef, r1}
  AddSides = {"Buy"}
  Prices = {200, 150}
  AddShares = {2}
  CutShares = {1}
PROPERTIES RefusedChangesNothing
