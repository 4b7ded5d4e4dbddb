----------------------------- MODULE MCPadRoute -----------------------------
EXTENDS PadRoute
=============================================================================
