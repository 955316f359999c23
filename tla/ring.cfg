SPECIFICATION Spec
CONSTANTS
  a = a b = b c = c x = x y = y
  None = None
  Threads = {a, b, c}
  Vals = {x, y}
  Size = 3
SYMMETRY Symm
CHECK_DEADLOCK FALSE
INVARIANTS TypeOK RingConsistent AddersSignalled RemoversSignalled
PROPERTIES ImplementsFifo
