--------------------------- MODULE MCStreamEvents ---------------------------
\* Shards are model values.
EXTENDS StreamEvents
=============================================================================
