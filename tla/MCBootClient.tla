---------------------------- MODULE MCBootClient ----------------------------
EXTENDS BootClient
=============================================================================
