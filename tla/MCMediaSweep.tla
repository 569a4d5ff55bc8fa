---------------------------- MODULE MCMediaSweep ----------------------------
EXTENDS MediaSweep

CONSTANT k1

MCPrefixes == <<{k1}, {k1}>>  \* a prefix and one below it
=============================================================================
