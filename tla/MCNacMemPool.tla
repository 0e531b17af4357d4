---------------------------- MODULE MCNacMemPool ----------------------------
EXTENDS NacMemPool
=============================================================================
