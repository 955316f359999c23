SPECIFICATION Spec
CONSTANTS
  m1 = m1 m2 = m2 m3 = m3 m4 = m4 p1 = p1 p2 = p2 l1 = l1 l2 = l2 t1 = t1 t2 = t2
  None = None
  Msgs = {m1, m2, m3}
  Producers = {p1, p2}
  Masters = {l1, l2}
  Targets = {t1}
  NumBanks = 2
  QueueSize = 2
  CbQueueSize = 1
  BankSpace = 5
  BufferSize = 5
  Header = 0
  Delim = 1
  HeaderRoom = 1
  Size <- Short
  Route <- OneRoute
  Kind <- AllTTY
  HasCallback = {}
  Switchable = {}
  V8Flushes = TRUE
SYMMETRY Symm
CHECK_DEADLOCK FALSE
INVARIANTS GreaseRefAssert
