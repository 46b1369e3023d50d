CONSTANTS
  Convs = {c1}
  Turns = {t1, t2}
  Tasks = {k1, k2}
  Loops = {l1, l2}
  c1 = c1
  t1 = t1
  t2 = t2
  k1 = k1
  k2 = k2
  l1 = l1
  l2 = l2
  NoConv = NoConv
  NoTurn = NoTurn
  NoLoop = NoLoop
  NoLoad = NoLoad
  MaxImages = 1
  MaxErrors = 2
  MaxMounts = 2
  MaxOps = 3
  MaxTime = 2
SPECIFICATION FairSpecImage
INVARIANTS ImageTypeOK OneLoopPerTurn KeysHaveLoops
PROPERTIES EveryChangeIsStored StoppedStaysStopped DeletedIsFinal TurnsSettle
CHECK_DEADLOCK FALSE
