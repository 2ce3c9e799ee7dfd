----------------------------- MODULE MCPreviews -----------------------------
EXTENDS Previews, TLC
=============================================================================
