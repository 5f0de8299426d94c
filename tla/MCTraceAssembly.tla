--------------------------- MODULE MCTraceAssembly ---------------------------
EXTENDS TraceAssembly

MCEdge    == {<<1, 2>>, <<1, 3>>, <<2, 3>>, <<3, 4>>}
MCBlocked == {<<2, 3>>}
MCRoot    == {1, 4}
=============================================================================
