CONSTANTS
  Threads = 1
  Callers = {main}
  Main = main
  Tasks = {t1}
  CountMod = 8
SPECIFICATION FairSpec
PROPERTY TasksRun
