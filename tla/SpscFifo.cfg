CONSTANTS
  T = {a, b}
  SIZE = 4
SPECIFICATION Spec
INVARIANTS
  TypeOK
  NoDataRace
  IInv
PROPERTIES
  ImplementsBoundedFifo
