----------------------------- MODULE MCDbConsole -----------------------------
EXTENDS DbConsole
=============================================================================
