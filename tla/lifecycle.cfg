SPECIFICATION FairSpec
CONSTANTS
  t1 = t1 t2 = t2 b1 = b1 b2 = b2
  Targets = {t1, t2}
  Banks = {b1, b2}
  MaxStarts = 1
  MaxCallbacks = 1
  MaxWrites = 3
CHECK_DEADLOCK FALSE
INVARIANTS TypeOK RefsCounted V8RefCovers AnswersTrue ExitNotBeforeAny
PROPERTIES AllComesBack
