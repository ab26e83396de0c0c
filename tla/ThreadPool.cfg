SPECIFICATION PoolSpec
CONSTANTS
  Main = main
  Workers = {w1, w2}
  Key <- List
  BlockSize = 2
INVARIANTS EachTaskOnce ResultRight NothingLeftAtShutdown
PROPERTIES AlgorithmReturns
CHECK_DEADLOCK FALSE
