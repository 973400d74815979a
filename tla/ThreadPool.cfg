SPECIFICATION Spec
CONSTANTS
  N = 3
  Jobs = {ok, bad}
  Throwing = {bad}
  NoJob = none
INVARIANTS
  NoLostWakeup
  NoUseAfterDestroy
PROPERTIES
  CallsEnd
  KeepsPromise
