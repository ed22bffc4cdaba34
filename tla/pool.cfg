CONSTANTS
  Threads = 3
  Callers = {main}
  Main = main
  Tasks = {t1}
  CountMod = 8
SPECIFICATION FairSpec
INVARIANTS TypeOK
PROPERTIES WaitIdleMeansDone TasksRun WaitIdleReturns
