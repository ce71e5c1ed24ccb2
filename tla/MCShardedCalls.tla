--------------------------- MODULE MCShardedCalls ---------------------------
\* No to two shards, and every sharding function of three keys, the ones that
\* return an index too small or too large included.
EXTENDS ShardedCalls
=============================================================================
