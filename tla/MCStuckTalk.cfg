CONSTANTS
  t1 = t1
  t2 = t2
  i1 = i1
  k1 = k1
  voice = voice
  Targets = {t1, t2}
  Pointers = {i1}
  Keys = {k1}
  Voice = voice
  None = None
  Attempts <- OnePress
SPECIFICATION Spec
INVARIANTS
  NoOpenMicrophone
CHECK_DEADLOCK FALSE
