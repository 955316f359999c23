SPECIFICATION FairSpec
CONSTANTS
  a = a v = v
  Threads = {a, v}
  Js = v
  MaxErrors = 1
  MaxJsErrors = 1
  QLen = 1
  MaxMsgs = 2
  MaxInits = 2
  MaxShutdowns = 1
  MaxCrashes = 1
CHECK_DEADLOCK FALSE
INVARIANTS TypeOK OneFate PingsAnswered
PROPERTIES SwitchedOffForCause JsIsTold CallsReturn
