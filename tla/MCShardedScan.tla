--------------------------- MODULE MCShardedScan ----------------------------
\* Three shards, one of them empty; two keys lack the prefix.
EXTENDS ShardedScan

MCContent == <<<<"a", "b", "c">>, <<>>, <<"d", "e", "f">>>>

MCWanted == {"a", "c", "d", "e"}

MCForeign == {<<7>>, <<5, 0>>, <<1, NoCursor>>}
=============================================================================
