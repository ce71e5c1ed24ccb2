\* Two operations after NewSharded; up to three keys, repetitions included.
SPECIFICATION Spec
CONSTANTS
  Keys = {"a", "b", "c"}
  MaxShards = 2
  PoolSize = 2
  MaxKeys = 3
  MaxOps = 2
INVARIANTS
  NoneLeftOpen
  OneDatabase
  DeletesExactly
  ResultsInInputOrder
  AllShardsAnswer
