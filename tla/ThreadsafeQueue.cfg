SPECIFICATION QueueSpec
CONSTANTS
  Threads = {t1, t2, t3}
  Values = {v1, v2}
  NoValue = NoValue
  Empty = Empty
  Some = Some
  NoThread = NoThread
  MaxPushes = 3
INVARIANTS QueueTypeOK HeadAndTailApart
PROPERTIES ImplementsFifo
