SPECIFICATION Spec
CONSTANTS
  Msgs = {m1, m2}
  Caps = {1, 2, 3, 4}
  ResizeCaps = {0, 1, 3}
  NoMsg = NoMsg
  Junk = Junk
INVARIANTS TypeOK StoreInBounds IndexInv
PROPERTY ImplementsFifo
