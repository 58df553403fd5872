------------------------------ MODULE MCMemory ------------------------------
EXTENDS MemoryPlane
=============================================================================
