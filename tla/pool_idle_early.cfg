CONSTANTS
  Threads = 2
  Callers = {main, other}
  Main = main
  Tasks = {t1, t2}
  CountMod = 8
SPECIFICATION Spec
PROPERTY WaitIdleMeansDone
