\* Three workspaces, one of them with two threads.
CONSTANTS
  w1 = w1  w2 = w2  w3 = w3  t1 = t1  t2 = t2  t3 = t3  t4 = t4
  Workspace = {w1, w2, w3}
  Thread = {t1, t2, t3, t4}
  Home <- MCHome
SPECIFICATION Spec
INVARIANTS
  RacesNeedSetupOrTeardown
  ReferencesStayValid
  CallsDoNotThrow
\* A race ends what is said about the program.
CHECK_DEADLOCK FALSE
